---- MODULE Spec2Model ----
(***************************************************************************)
(* Vacation-rental marketplace backend (src/backend/server.ts) over the    *)
(* relational store created by the DDL and seed rows of                    *)
(* src/unnamed/part_000.                                                   *)
(*                                                                         *)
(* Every route handler is an async function: the code between two awaited  *)
(* store queries runs without interruption, and another request may run at *)
(* each await.  A handler is therefore one action per awaited query; the   *)
(* position of each request in flight is kept in reqs.  The lookup of the  *)
(* authenticateToken middleware is taken together with the handler's first *)
(* query.                                                                  *)
(*                                                                         *)
(* Row identifiers made by nanoid() are opaque and unique.  A table whose   *)
(* rows are referred to by other rows is a sequence, the row's position    *)
(* standing for its identifier (book_001 is booking 1, ...); a table whose *)
(* identifiers nothing refers to is the bag of its rows.  The requests in  *)
(* flight are a bag as well: nothing orders them.                          *)
(***************************************************************************)
EXTENDS Integers, Sequences, FiniteSets, Bags, TLC

VARIABLES
    users,          \* table users: user_id -> row
    properties,     \* table properties: property_id -> row
    availability,   \* table property_availability: sequence of rows
    bookings,       \* table bookings: sequence of rows, booking_id = position
    conversations,  \* table conversations
    notifications,  \* table notifications: bag of rows
    reviews,        \* table reviews: bag of rows
    messages,       \* table messages: sequence of rows, msg_00i at position i
    sockets,        \* the socket of each client of the io server
    reqs,           \* requests in flight: bag of handler positions and locals
    resp,           \* the response sent last
    nreq            \* number of requests received so far

vars == <<users, properties, availability, bookings, conversations,
          notifications, reviews, messages, sockets, reqs, resp, nreq>>

(***************************************************************************)
(* Bounds of the model.                                                    *)
(***************************************************************************)
MaxRequests == 3
MaxInflight == 2

(***************************************************************************)
(* Seed rows.                                                              *)
(***************************************************************************)
NoValue == "none"

\* Text that the program searches, orders or converts is a sequence of
\* characters; text it only stores and hands back is a string.
SeedUsers ==
    [u \in {"user_001", "user_002", "user_003", "user_004", "user_005"} |->
        CASE u = "user_001" ->
            [email |->
                <<"a", "h", "m", "e", "d", ".", "a", "l", "i", "@", "e",
                  "x", "a", "m", "p", "l", "e", ".", "c", "o", "m">>,
             phone_number |-> "+218910000001", role |-> "host"]
          [] u = "user_002" ->
            [email |->
                <<"s", "a", "r", "a", ".", "m", "o", "h", "a", "m", "e",
                  "d", "@", "e", "x", "a", "m", "p", "l", "e", ".", "c",
                  "o", "m">>,
             phone_number |-> "+218910000003", role |-> "guest"]
          [] u = "user_003" ->
            [email |->
                <<"o", "m", "a", "r", ".", "h", "a", "s", "s", "a", "n",
                  "@", "e", "x", "a", "m", "p", "l", "e", ".", "c", "o", "m">>,
             phone_number |-> "+218910000004", role |-> "host"]
          [] u = "user_004" ->
            [email |->
                <<"m", "a", "r", "i", "a", "m", ".", "e", "s", "s", "a",
                  "@", "e", "x", "a", "m", "p", "l", "e", ".", "c", "o", "m">>,
             phone_number |-> "+218910000006", role |-> "guest"]
          [] OTHER ->
            [email |->
                <<"a", "d", "m", "i", "n", ".", "l", "y", "@", "e", "x",
                  "a", "m", "p", "l", "e", ".", "c", "o", "m">>,
             phone_number |-> "+218910000007", role |-> "admin"]]

\* A date or timestamp column is TEXT in the form YYYY-MM-DD...: the digits of
\* the year, the month and the day, which the store compares as text.  The
\* seed timestamps all end in T10:00:00Z, which is left out.
SeedProperties ==
    [p \in {"prop_001", "prop_002", "prop_003"} |->
        CASE p = "prop_001" ->
            [host_id |-> "user_001",
             city |-> <<"T", "r", "i", "p", "o", "l", "i">>,
             neighborhood |->
                <<"A", "l", "-", "H", "a", "d", "b", "a">>,
             property_type |-> "apartment", guest_capacity |-> 4,
             amenities |->
                <<"W", "i", "F", "i", ",", "A", "i", "r", " ", "C", "o",
                  "n", "d", "i", "t", "i", "o", "n", "i", "n", "g", ",",
                  "B", "a", "l", "c", "o", "n", "y", ",", "K", "i", "t",
                  "c", "h", "e", "n", ",", "P", "a", "r", "k", "i", "n", "g">>,
             base_price_per_night |-> 150, is_active |-> TRUE,
             created_at |-> <<2023, 1, 20>>]
          [] p = "prop_002" ->
            [host_id |-> "user_001",
             city |-> <<"T", "r", "i", "p", "o", "l", "i">>,
             neighborhood |->
                <<"A", "l", "-", "M", "a", "h", "a", "t", "t", "a">>,
             property_type |-> "studio", guest_capacity |-> 2,
             amenities |->
                <<"W", "i", "F", "i", ",", "A", "i", "r", " ", "C", "o",
                  "n", "d", "i", "t", "i", "o", "n", "i", "n", "g", ",",
                  "K", "i", "t", "c", "h", "e", "n", ",", "T", "V">>,
             base_price_per_night |-> 80, is_active |-> TRUE,
             created_at |-> <<2023, 1, 25>>]
          [] OTHER ->
            [host_id |-> "user_003",
             city |-> <<"B", "e", "n", "g", "h", "a", "z", "i">>,
             neighborhood |->
                <<"A", "l", "-", "W", "a", "h", "d", "a">>,
             property_type |-> "house", guest_capacity |-> 6,
             amenities |->
                <<"W", "i", "F", "i", ",", "P", "a", "t", "i", "o", ",",
                  "G", "a", "r", "d", "e", "n", ",", "K", "i", "t", "c",
                  "h", "e", "n", ",", "W", "a", "s", "h", "e", "r">>,
             base_price_per_night |-> 120, is_active |-> TRUE,
             created_at |-> <<2023, 2, 5>>]]

SeedAvailability ==
    << [property_id |-> "prop_001", date |-> <<2023, 6, 1>>, is_available |-> TRUE],
       [property_id |-> "prop_001", date |-> <<2023, 6, 2>>, is_available |-> TRUE],
       [property_id |-> "prop_001", date |-> <<2023, 6, 3>>, is_available |-> FALSE],
       [property_id |-> "prop_002", date |-> <<2023, 6, 1>>, is_available |-> TRUE],
       [property_id |-> "prop_002", date |-> <<2023, 6, 2>>, is_available |-> TRUE],
       [property_id |-> "prop_003", date |-> <<2023, 6, 1>>, is_available |-> TRUE] >>

SeedBookings ==
    << [property_id |-> "prop_001", guest_id |-> "user_002", host_id |-> "user_001",
        check_in |-> <<2023, 6, 1>>, status |-> "confirmed"],
       [property_id |-> "prop_003", guest_id |-> "user_004", host_id |-> "user_003",
        check_in |-> <<2023, 6, 10>>, status |-> "pending"] >>

SeedConversations ==
    << [booking_id |-> 1, guest_id |-> "user_002", host_id |-> "user_001"],
       [booking_id |-> 2, guest_id |-> "user_004", host_id |-> "user_003"] >>

SeedReviews ==
    SetToBag({ [booking_id |-> 1, property_id |-> "prop_001", reviewer_id |-> "user_002",
                host_id |-> "user_001"] })

SeedNotifications ==
    SetToBag({ [user_id |-> "user_001", type |-> "booking_request",
                related_entity_type |-> "booking", related_entity_id |-> 1],
               [user_id |-> "user_002", type |-> "booking_confirmed",
                related_entity_type |-> "booking", related_entity_id |-> 1],
               [user_id |-> "user_003", type |-> "booking_request",
                related_entity_type |-> "booking", related_entity_id |-> 2] })

SeedMessages ==
    << [conversation_id |-> 1, sender_id |-> "user_002", content |-> "Hi Ahmed",
        is_read |-> FALSE],
       [conversation_id |-> 1, sender_id |-> "user_001", content |-> "Hello Sara",
        is_read |-> TRUE],
       [conversation_id |-> 2, sender_id |-> "user_004", content |-> "Hello Omar",
        is_read |-> FALSE] >>

Statuses == {"pending", "confirmed", "declined", "cancelled", "completed"}

(***************************************************************************)
(* Requests and responses.                                                 *)
(***************************************************************************)
Response(op, code, error) ==
    [op |-> op, code |-> code, error |-> error]

NoResponse == Response("none", 0, NoValue)

\* Bearer credentials a client may present: a token signed for a user id, no
\* token, or a token whose verification throws.
Tokens == DOMAIN SeedUsers \cup {"missing", "malformed", "user_gone"}

\* A variant of authenticateToken below without the lookup of the user: a
\* verified token whose user is not stored passes as a guest.
authenticateTokenWithoutLookup(token) ==
    IF token = "missing"
    THEN [ok |-> FALSE, code |-> 401, error |-> "AUTH_TOKEN_MISSING"]
    ELSE IF token = "malformed"
    THEN [ok |-> FALSE, code |-> 403, error |-> "AUTH_TOKEN_INVALID"]
    ELSE [ok |-> TRUE,
          user |-> [user_id |-> token,
                    role |-> IF token \in DOMAIN users THEN users[token].role
                             ELSE "guest"]]

\* authenticateToken: the resolved user, or the error response.
authenticateToken(token) ==
    IF token = "missing"
    THEN [ok |-> FALSE, code |-> 401, error |-> "AUTH_TOKEN_MISSING"]
    ELSE IF token = "malformed"
    THEN [ok |-> FALSE, code |-> 403, error |-> "AUTH_TOKEN_INVALID"]
    ELSE IF token \notin DOMAIN users
    THEN [ok |-> FALSE, code |-> 401, error |-> "AUTH_TOKEN_INVALID"]
    ELSE [ok |-> TRUE, user |-> [user_id |-> token, role |-> users[token].role]]

\* The Date parameter as the driver writes it into the TEXT column: a
\* timestamp (year, month, day, then the time of day).
DateParameter(date) == date \o <<0, 0, 0>>

\* A row is inserted into a table kept as a bag.
Insert(table, row) == table (+) SetToBag({row})

\* The number of rows of a bag table that satisfy P.
CountRows(table, P(_)) ==
    BagCardinality([row \in {x \in BagToSet(table) : P(x)} |-> table[row]])

\* A request is received.
Receive ==
    /\ BagCardinality(reqs) < MaxInflight
    /\ nreq < MaxRequests
    /\ nreq' = nreq + 1

\* A received request is answered before its handler awaits anything more.
ReplyAtOnce(op, code, error) ==
    /\ reqs' = reqs
    /\ resp' = Response(op, code, error)

\* A received request goes on as r.
Enter(r) ==
    /\ reqs' = reqs (+) SetToBag({r})
    /\ resp' = resp

\* The request r goes on as r2.
Continue(r, r2) ==
    /\ reqs' = (reqs (-) SetToBag({r})) (+) SetToBag({r2})
    /\ resp' = resp

\* The request r ends with a response.
Reply(r, op, code, error) ==
    /\ reqs' = reqs (-) SetToBag({r})
    /\ resp' = Response(op, code, error)

\* The query the request r awaits is rejected by the store (the connection is
\* lost, the statement times out): the handler's catch answers 500, and what
\* the request has written before stays written.
QueryRejects(r) ==
    /\ Reply(r, r.op, 500, "INTERNAL_SERVER_ERROR")
    /\ UNCHANGED <<users, properties, availability, bookings, conversations,
                   notifications, reviews, nreq, messages, sockets>>

(***************************************************************************)
(* Events of the io server.                                                *)
(***************************************************************************)
\* The rooms an event is emitted to: every socket (io.emit), the room of a
\* user (user_<user_id>) and the room of a conversation
\* (conversation_<conversation_id>).
Everyone == [kind |-> "all"]
\* A variant of the room of a user below that holds every socket.
UserRoomOfEveryone(user_id) == [kind |-> "all"]

UserRoom(user_id) == [kind |-> "user", user_id |-> user_id]
ConversationRoom(conversation_id) ==
    [kind |-> "conversation", conversation_id |-> conversation_id]

\* Whether a socket is in a room: each socket joins the room of its user when
\* it connects and keeps the conversation rooms it has joined.
InRoom(socket, room) ==
    \/ room.kind = "all"
    \/ room.kind = "user" /\ room.user_id = socket.user.user_id
    \/ room.kind = "conversation" /\ room.conversation_id \in socket.rooms

Event(name, data) == [name |-> name, data |-> data]

\* The clients that may open a socket, and the state of a client that has
\* none.
Clients == {"client_1", "client_2"}

NoSocket == [connected |-> FALSE]

\* io.to(room).emit(event): every connected socket in the room receives it.
Deliver(socks, room, event) ==
    [i \in DOMAIN socks |->
        IF socks[i].connected /\ InRoom(socks[i], room)
        THEN [socks[i] EXCEPT !.received = Append(@, event)]
        ELSE socks[i]]

\* The emits of one handler step, in the order of the code.
RECURSIVE DeliverAll(_, _)
DeliverAll(socks, emits) ==
    IF emits = << >>
    THEN socks
    ELSE DeliverAll(Deliver(socks, Head(emits).room, Head(emits).event), Tail(emits))

Emit(emits) == sockets' = DeliverAll(sockets, emits)

NoEmit == sockets' = sockets

(***************************************************************************)
(* POST /api/bookings                                                      *)
(***************************************************************************)
\* createBookingInputSchema: status is one of the five states and defaults
\* to pending; guest_id is overwritten with the authenticated user.
createBookingInputSchema(body, guest_id) ==
    IF body.status \notin Statuses \cup {NoValue}
    THEN [ok |-> FALSE]
    ELSE [ok |-> TRUE,
          data |-> [property_id |-> body.property_id,
                    guest_id |-> guest_id,
                    check_in |-> body.check_in,
                    status |-> IF body.status = NoValue THEN "pending" ELSE body.status]]

\* The status written by the INSERT: bookingData.status || 'pending'.
InsertedBookingStatus(bookingData) ==
    IF bookingData.status = NoValue THEN "pending" ELSE bookingData.status

\* Token lookup, body validation and the property lookup.
CreateBookingPropertyCheck(token, body) ==
    /\ Receive
    /\ LET auth == authenticateToken(token)
           parsed == createBookingInputSchema(body, auth.user.user_id)
       IN  IF ~auth.ok
           THEN ReplyAtOnce("create_booking", auth.code, auth.error)
           ELSE IF ~parsed.ok
           THEN ReplyAtOnce("create_booking", 400, "VALIDATION_ERROR")
           ELSE IF parsed.data.property_id \notin DOMAIN properties
           THEN ReplyAtOnce("create_booking", 404, "PROPERTY_NOT_FOUND")
           ELSE Enter([op |-> "create_booking", pc |-> "insert_booking",
                       user |-> auth.user, bookingData |-> parsed.data,
                       host_id |-> properties[parsed.data.property_id].host_id,
                       booking_id |-> 0])
    /\ UNCHANGED <<users, properties, availability, bookings, conversations,
                   notifications, reviews, messages, sockets>>

\* The booking row the handler inserts.
NewBooking(r) ==
    [property_id |-> r.bookingData.property_id,
     guest_id |-> r.bookingData.guest_id,
     host_id |-> r.host_id,
     check_in |-> DateParameter(r.bookingData.check_in),
     status |-> InsertedBookingStatus(r.bookingData)]

CreateBookingInsertBooking(r) ==
    /\ r.op = "create_booking"
    /\ r.pc = "insert_booking"
    /\ bookings' = Append(bookings, NewBooking(r))
    /\ Continue(r, [r EXCEPT !.pc = "insert_conversation",
                             !.booking_id = Len(bookings) + 1])
    /\ UNCHANGED <<users, properties, availability, conversations, notifications,
                   reviews, nreq, messages, sockets>>

\* A variant of the step below in which the conversation is inserted twice.
NewBookingConversationsTwice(r) ==
    << [booking_id |-> r.booking_id, guest_id |-> r.bookingData.guest_id,
        host_id |-> r.host_id],
       [booking_id |-> r.booking_id, guest_id |-> r.bookingData.guest_id,
        host_id |-> r.host_id] >>

\* The conversation rows the handler inserts for its booking.
NewBookingConversations(r) ==
    << [booking_id |-> r.booking_id, guest_id |-> r.bookingData.guest_id,
        host_id |-> r.host_id] >>

CreateBookingInsertConversation(r) ==
    /\ r.op = "create_booking"
    /\ r.pc = "insert_conversation"
    /\ conversations' = conversations \o NewBookingConversations(r)
    /\ Continue(r, [r EXCEPT !.pc = "insert_notification"])
    /\ UNCHANGED <<users, properties, availability, bookings, notifications,
                   reviews, nreq, messages, sockets>>

\* The notification row for the host of the booked property.
BookingRequestNotification(r) ==
    [user_id |-> r.host_id, type |-> "booking_request",
     related_entity_type |-> "booking", related_entity_id |-> r.booking_id]

CreateBookingInsertNotification(r) ==
    /\ r.op = "create_booking"
    /\ r.pc = "insert_notification"
    /\ notifications' = Insert(notifications, BookingRequestNotification(r))
    /\ Emit(<< [room |-> Everyone, event |-> Event("booking/created", NewBooking(r))],
               [room |-> UserRoom(r.host_id),
                event |-> Event("notification/created", BookingRequestNotification(r))] >>)
    /\ Reply(r, "create_booking", 201, NoValue)
    /\ UNCHANGED <<users, properties, availability, bookings, conversations,
                   reviews, nreq, messages>>

(***************************************************************************)
(* GET /api/bookings/:booking_id                                           *)
(***************************************************************************)
\* A variant of the access check below that lets every guest account through.
CanAccessBookingAsAnyGuest(user, booking) ==
    \/ user.role \in {"admin", "guest"}
    \/ booking.guest_id = user.user_id
    \/ booking.host_id = user.user_id

\* A variant of the access check below that lets only the guest and the
\* host through.
CanAccessBookingAsParty(user, booking) ==
    \/ booking.guest_id = user.user_id
    \/ booking.host_id = user.user_id

\* The access check shared by GET and PATCH of a booking.
CanAccessBooking(user, booking) ==
    \/ user.role = "admin"
    \/ booking.guest_id = user.user_id
    \/ booking.host_id = user.user_id

GetBooking(token, booking_id) ==
    /\ Receive
    /\ LET auth == authenticateToken(token)
       IN  IF ~auth.ok
           THEN ReplyAtOnce("get_booking", auth.code, auth.error)
           ELSE IF booking_id \notin DOMAIN bookings
           THEN ReplyAtOnce("get_booking", 404, "BOOKING_NOT_FOUND")
           ELSE IF ~CanAccessBooking(auth.user, bookings[booking_id])
           THEN ReplyAtOnce("get_booking", 403, "FORBIDDEN_ACCESS")
           ELSE /\ reqs' = reqs
                /\ resp' = [op |-> "get_booking", code |-> 200, error |-> NoValue,
                            user_id |-> auth.user.user_id,
                            booking |-> bookings[booking_id]]
    /\ UNCHANGED <<users, properties, availability, bookings, conversations,
                   notifications, reviews, messages, sockets>>

(***************************************************************************)
(* PATCH /api/bookings/:booking_id                                         *)
(***************************************************************************)
\* updateBookingInputSchema: every field but booking_id is optional; status,
\* when given, is one of the five states.
updateBookingInputSchema(body) ==
    IF body.status \notin Statuses \cup {NoValue}
    THEN [ok |-> FALSE]
    ELSE [ok |-> TRUE, data |-> body]

\* The fields of the dynamic UPDATE: the entries of updateData that are defined.
UpdateFields(updateData) ==
    {k \in DOMAIN updateData : updateData[k] # NoValue}

\* UPDATE bookings SET <field> = <value>, ... applied to one row.
UpdatedBooking(booking, updateData) ==
    [k \in DOMAIN booking |->
        IF k \in UpdateFields(updateData) THEN updateData[k] ELSE booking[k]]

\* Token lookup, the booking lookup, the access check and body validation.
UpdateBookingCheck(token, booking_id, body) ==
    /\ Receive
    /\ LET auth == authenticateToken(token)
           parsed == updateBookingInputSchema(body)
       IN  IF ~auth.ok
           THEN ReplyAtOnce("update_booking", auth.code, auth.error)
           ELSE IF booking_id \notin DOMAIN bookings
           THEN ReplyAtOnce("update_booking", 404, "BOOKING_NOT_FOUND")
           ELSE IF ~CanAccessBooking(auth.user, bookings[booking_id])
           THEN ReplyAtOnce("update_booking", 403, "FORBIDDEN_ACCESS")
           ELSE IF ~parsed.ok
           THEN ReplyAtOnce("update_booking", 400, "VALIDATION_ERROR")
           ELSE IF UpdateFields(parsed.data) = {}
           THEN ReplyAtOnce("update_booking", 400, "NO_UPDATE_FIELDS")
           ELSE Enter([op |-> "update_booking", pc |-> "update",
                       user |-> auth.user, booking_id |-> booking_id,
                       currentBooking |-> bookings[booking_id],
                       updatedBooking |-> bookings[booking_id],
                       updateData |-> parsed.data])
    /\ UNCHANGED <<users, properties, availability, bookings, conversations,
                   notifications, reviews, messages, sockets>>

\* A variant of the notification data below in which the status completed
\* has a notification of its own, addressed to the guest.
StatusNotificationDataWithCompleted(user, currentBooking, status) ==
    IF status = "cancelled"
    THEN [user_id |-> IF user.user_id = currentBooking.guest_id
                      THEN currentBooking.host_id ELSE currentBooking.guest_id,
          type |-> "booking_cancelled"]
    ELSE IF status \in {"confirmed", "declined", "completed"}
    THEN [user_id |-> currentBooking.guest_id, type |-> "booking_" \o status]
    ELSE [user_id |-> NoValue, type |-> NoValue]

\* The notification of a status change: its addressee and type, or no
\* addressee when the new status has no notification.
StatusNotificationData(user, currentBooking, status) ==
    IF status = "confirmed"
    THEN [user_id |-> currentBooking.guest_id, type |-> "booking_confirmed"]
    ELSE IF status = "declined"
    THEN [user_id |-> currentBooking.guest_id, type |-> "booking_declined"]
    ELSE IF status = "cancelled"
    THEN [user_id |-> IF user.user_id = currentBooking.guest_id
                      THEN currentBooking.host_id ELSE currentBooking.guest_id,
          type |-> "booking_cancelled"]
    ELSE [user_id |-> NoValue, type |-> NoValue]

\* The event broadcast for a new status that has a notification.
StatusEvent(status) ==
    IF status = "confirmed" THEN "booking/confirmed"
    ELSE IF status = "declined" THEN "booking/declined"
    ELSE "booking/cancelled"

\* Whether the handler goes on to the notification of a status change.
NotifiesStatusChange(r) ==
    /\ r.updateData.status # NoValue
    /\ r.updateData.status # r.currentBooking.status
    /\ StatusNotificationData(r.user, r.currentBooking, r.updateData.status).user_id # NoValue

\* bookings.property_id REFERENCES properties, guest_id and host_id REFERENCES
\* users: whether the row breaks one of them.
BookingsForeignKeyViolation(row) ==
    \/ row.property_id \notin DOMAIN properties
    \/ row.guest_id \notin DOMAIN users
    \/ row.host_id \notin DOMAIN users

\* UPDATE bookings, then the response or the step to the notification.
UpdateBookingUpdate(r) ==
    /\ r.op = "update_booking"
    /\ r.pc = "update"
    /\ IF BookingsForeignKeyViolation(UpdatedBooking(bookings[r.booking_id], r.updateData))
       THEN /\ bookings' = bookings
            /\ NoEmit
            /\ Reply(r, "update_booking", 500, "INTERNAL_SERVER_ERROR")
       ELSE LET updatedBooking == UpdatedBooking(bookings[r.booking_id], r.updateData)
            IN  /\ bookings' = [bookings EXCEPT ![r.booking_id] = updatedBooking]
                /\ IF NotifiesStatusChange(r)
                   THEN /\ Emit(<< [room |-> Everyone,
                                    event |-> Event(StatusEvent(r.updateData.status),
                                                    updatedBooking)] >>)
                        /\ Continue(r, [r EXCEPT !.pc = "insert_notification",
                                                 !.updatedBooking = updatedBooking])
                   ELSE /\ Emit(<< [room |-> Everyone,
                                    event |-> Event("booking/updated", updatedBooking)] >>)
                        /\ Reply(r, "update_booking", 200, NoValue)
    /\ UNCHANGED <<users, properties, availability, conversations, notifications,
                   reviews, nreq, messages>>

UpdateBookingInsertNotification(r) ==
    /\ r.op = "update_booking"
    /\ r.pc = "insert_notification"
    /\ LET notificationData == StatusNotificationData(r.user, r.currentBooking,
                                                      r.updateData.status)
           row == [user_id |-> notificationData.user_id,
                   type |-> notificationData.type,
                   related_entity_type |-> "booking",
                   related_entity_id |-> r.booking_id]
       IN  /\ notifications' = Insert(notifications, row)
           /\ Emit(<< [room |-> UserRoom(notificationData.user_id),
                       event |-> Event("notification/created", row)],
                      [room |-> Everyone,
                       event |-> Event("booking/updated", r.updatedBooking)] >>)
    /\ Reply(r, "update_booking", 200, NoValue)
    /\ UNCHANGED <<users, properties, availability, bookings, conversations,
                   reviews, nreq, messages>>

(***************************************************************************)
(* POST /api/bookings/:booking_id/reviews                                  *)
(***************************************************************************)
MinRating == 1
MaxRating == 5

\* createReviewInputSchema: each rating is an integer from 1 to 5 (the body
\* carries one rating here; the six others are validated alike).
createReviewInputSchema(body) ==
    body.overall_rating \in MinRating..MaxRating

\* A variant of the status check below that lets a cancelled booking through.
IsReviewableUnlessPending(booking) ==
    booking.status \in {"completed", "cancelled"}

\* The status check of the review handler.
IsReviewable(booking) ==
    booking.status = "completed"

\* Token lookup, the booking lookup, the guest check and the status check.
CreateReviewBookingCheck(token, booking_id, body) ==
    /\ Receive
    /\ LET auth == authenticateToken(token)
       IN  IF ~auth.ok
           THEN ReplyAtOnce("create_review", auth.code, auth.error)
           ELSE IF booking_id \notin DOMAIN bookings
           THEN ReplyAtOnce("create_review", 404, "BOOKING_NOT_FOUND")
           ELSE IF bookings[booking_id].guest_id # auth.user.user_id
           THEN ReplyAtOnce("create_review", 403, "FORBIDDEN_ACCESS")
           ELSE IF ~IsReviewable(bookings[booking_id])
           THEN ReplyAtOnce("create_review", 400, "BOOKING_NOT_COMPLETED")
           ELSE Enter([op |-> "create_review", pc |-> "existing_review",
                       user |-> auth.user, booking_id |-> booking_id,
                       booking |-> bookings[booking_id], body |-> body])
    /\ UNCHANGED <<users, properties, availability, bookings, conversations,
                   notifications, reviews, messages, sockets>>

\* SELECT review_id FROM reviews WHERE booking_id = $1
ExistingReview(booking_id) ==
    {row \in BagToSet(reviews) : row.booking_id = booking_id}

\* The lookup of an existing review, then body validation.
CreateReviewExistingCheck(r) ==
    /\ r.op = "create_review"
    /\ r.pc = "existing_review"
    /\ IF ExistingReview(r.booking_id) # {}
       THEN Reply(r, "create_review", 400, "REVIEW_ALREADY_EXISTS")
       ELSE IF ~createReviewInputSchema(r.body)
       THEN Reply(r, "create_review", 400, "VALIDATION_ERROR")
       ELSE Continue(r, [r EXCEPT !.pc = "insert_review"])
    /\ UNCHANGED <<users, properties, availability, bookings, conversations,
                   notifications, reviews, nreq, messages, sockets>>

\* The review row the handler inserts.
NewReview(r) ==
    [booking_id |-> r.booking_id,
     property_id |-> r.booking.property_id,
     reviewer_id |-> r.user.user_id,
     host_id |-> r.booking.host_id]

\* The notification row for the host of the reviewed booking.
ReviewReceivedNotification(r) ==
    [user_id |-> r.booking.host_id, type |-> "review_received",
     related_entity_type |-> "review", related_entity_id |-> r.booking_id]

\* INSERT INTO reviews: the table has no unique constraint on booking_id, so
\* the insert succeeds whatever rows exist.
CreateReviewInsertReview(r) ==
    /\ r.op = "create_review"
    /\ r.pc = "insert_review"
    /\ reviews' = Insert(reviews, NewReview(r))
    /\ Continue(r, [r EXCEPT !.pc = "insert_notification"])
    /\ UNCHANGED <<users, properties, availability, bookings, conversations,
                   notifications, nreq, messages, sockets>>

CreateReviewInsertNotification(r) ==
    /\ r.op = "create_review"
    /\ r.pc = "insert_notification"
    /\ notifications' = Insert(notifications, ReviewReceivedNotification(r))
    /\ Emit(<< [room |-> Everyone, event |-> Event("review/created", NewReview(r))],
               [room |-> UserRoom(r.booking.host_id),
                event |-> Event("notification/created",
                                ReviewReceivedNotification(r))] >>)
    /\ Reply(r, "create_review", 201, NoValue)
    /\ UNCHANGED <<users, properties, availability, bookings, conversations,
                   reviews, nreq, messages>>

(***************************************************************************)
(* Text                                                                    *)
(***************************************************************************)
UpperCaseLetters ==
    <<"A", "B", "C", "D", "E", "F", "G", "H", "I", "J", "K", "L", "M",
      "N", "O", "P", "Q", "R", "S", "T", "U", "V", "W", "X", "Y", "Z">>

LowerCaseLetters ==
    <<"a", "b", "c", "d", "e", "f", "g", "h", "i", "j", "k", "l", "m",
      "n", "o", "p", "q", "r", "s", "t", "u", "v", "w", "x", "y", "z">>

\* String.prototype.toLowerCase.
toLowerCase(s) ==
    [i \in 1..Len(s) |->
        IF \E k \in DOMAIN UpperCaseLetters : UpperCaseLetters[k] = s[i]
        THEN LowerCaseLetters[CHOOSE k \in DOMAIN UpperCaseLetters :
                                  UpperCaseLetters[k] = s[i]]
        ELSE s[i]]

\* String.prototype.trim: the text without its leading and trailing blanks.
trim(s) ==
    LET kept == {i \in 1..Len(s) : s[i] # " "}
    IN  IF kept = {}
        THEN << >>
        ELSE SubSeq(s, CHOOSE i \in kept : \A j \in kept : i <= j,
                       CHOOSE i \in kept : \A j \in kept : j <= i)

\* text ILIKE '%pattern%' for a pattern without wildcards of its own: the
\* pattern occurs in the text, letter case apart.
ILike(text, pattern) ==
    \E i \in 0..(Len(text) - Len(pattern)) :
        toLowerCase(SubSeq(text, i + 1, i + Len(pattern))) = toLowerCase(pattern)

\* Comparison of two TEXT dates of the form YYYY-MM-DD: the first field that
\* differs decides.
TextLeq(a, b) ==
    \/ a = b
    \/ \E i \in 1..Len(a) :
          /\ \A j \in 1..(i - 1) : a[j] = b[j]
          /\ a[i] < b[i]

\* A variant of the comparison below that leaves out the lower end.
BetweenAfterLow(x, low, high) == x # low /\ TextLeq(low, x) /\ TextLeq(x, high)

\* x BETWEEN low AND high on TEXT dates.
Between(x, low, high) == TextLeq(low, x) /\ TextLeq(x, high)

(***************************************************************************)
(* POST /api/auth/register                                                 *)
(***************************************************************************)
\* z.string().email(): no blank, something before the @ and a dot somewhere
\* after it.
IsEmail(s) ==
    /\ \A i \in 1..Len(s) : s[i] # " "
    /\ \E i \in 2..Len(s) :
          /\ s[i] = "@"
          /\ \E j \in (i + 2)..(Len(s) - 1) : s[j] = "."

\* The role transform of the user schemas: frontend roles become backend roles.
RoleTransform(val) ==
    IF val = "traveler" THEN "guest"
    ELSE IF val = "both" THEN "host"
    ELSE val

Roles == {"guest", "host", "admin", "traveler", "both"}

createUserInputSchema(body) ==
    IF ~IsEmail(body.email) \/ body.role \notin Roles
    THEN [ok |-> FALSE]
    ELSE [ok |-> TRUE,
          data |-> [email |-> body.email, phone_number |-> body.phone_number,
                    role |-> RoleTransform(body.role)]]

\* The identifiers nanoid() hands out to new users, in the order it does.
NewUserIds ==
    <<"user_n1", "user_n2", "user_n3", "user_n4", "user_n5", "user_n6">>

NewUserId ==
    NewUserIds[CHOOSE i \in DOMAIN NewUserIds :
                  /\ NewUserIds[i] \notin DOMAIN users
                  /\ \A j \in 1..(i - 1) : NewUserIds[j] \in DOMAIN users]

\* The rows that make the store refuse row as the row of user_id: email and
\* phone_number are UNIQUE.
UsersUniqueViolation(user_id, row) ==
    \E u \in DOMAIN users \ {user_id} :
        \/ users[u].email = row.email
        \/ users[u].phone_number = row.phone_number

\* The response to a successful registration carries the token signed for
\* the new user.
RegisterResponse(user_id) ==
    [op |-> "register", code |-> 201, error |-> NoValue, token |-> user_id]

\* Body validation and the lookup of an existing user.
RegisterLookup(body) ==
    /\ Receive
    /\ LET parsed == createUserInputSchema(body)
       IN  IF ~parsed.ok
           THEN ReplyAtOnce("register", 400, "VALIDATION_ERROR")
           ELSE IF \E u \in DOMAIN users :
                      \/ users[u].email = parsed.data.email
                      \/ users[u].phone_number = parsed.data.phone_number
           THEN ReplyAtOnce("register", 409, "USER_ALREADY_EXISTS")
           ELSE Enter([op |-> "register", pc |-> "insert", data |-> parsed.data])
    /\ UNCHANGED <<users, properties, availability, bookings, conversations,
                   notifications, reviews, messages, sockets>>

\* The row written by the INSERT: the email in lower case and trimmed.
RegisteredUser(data) ==
    [email |-> trim(toLowerCase(data.email)), phone_number |-> data.phone_number,
     role |-> data.role]

\* INSERT INTO users and the response.
RegisterInsert(r) ==
    /\ r.op = "register" /\ r.pc = "insert"
    /\ LET user_id == NewUserId
           row == RegisteredUser(r.data)
       IN  IF UsersUniqueViolation(user_id, row)
           THEN /\ users' = users
                /\ NoEmit
                /\ Reply(r, "register", 500, "INTERNAL_SERVER_ERROR")
           ELSE /\ users' = [u \in DOMAIN users \cup {user_id} |->
                                IF u = user_id THEN row ELSE users[u]]
                /\ Emit(<< [room |-> Everyone, event |-> Event("user/created", row)] >>)
                /\ reqs' = reqs (-) SetToBag({r})
                /\ resp' = RegisterResponse(user_id)
    /\ UNCHANGED <<properties, availability, bookings, conversations,
                   notifications, reviews, nreq, messages>>

(***************************************************************************)
(* PATCH /api/users/:user_id                                               *)
(***************************************************************************)
\* updateUserInputSchema: every field but user_id is optional.
updateUserInputSchema(body) ==
    IF \/ "email" \in DOMAIN body /\ ~IsEmail(body.email)
       \/ "role" \in DOMAIN body /\ body.role \notin Roles
    THEN [ok |-> FALSE]
    ELSE [ok |-> TRUE,
          data |-> [k \in DOMAIN body |->
                       IF k = "role" THEN RoleTransform(body[k]) ELSE body[k]]]

\* Token lookup, the ownership check and body validation.
PatchUserCheck(token, user_id, body) ==
    /\ Receive
    /\ LET auth == authenticateToken(token)
           parsed == updateUserInputSchema(body)
       IN  IF ~auth.ok
           THEN ReplyAtOnce("update_user", auth.code, auth.error)
           ELSE IF auth.user.user_id # user_id /\ auth.user.role # "admin"
           THEN ReplyAtOnce("update_user", 403, "FORBIDDEN_ACCESS")
           ELSE IF ~parsed.ok
           THEN ReplyAtOnce("update_user", 400, "VALIDATION_ERROR")
           ELSE IF DOMAIN parsed.data = {}
           THEN ReplyAtOnce("update_user", 400, "NO_UPDATE_FIELDS")
           ELSE Enter([op |-> "update_user", pc |-> "update", user_id |-> user_id,
                       updateData |-> parsed.data])
    /\ UNCHANGED <<users, properties, availability, bookings, conversations,
                   notifications, reviews, messages, sockets>>

\* UPDATE <table> SET <field> = <value>, ... applied to one row.
UpdatedRow(row, updateData) ==
    [k \in DOMAIN row |-> IF k \in DOMAIN updateData THEN updateData[k] ELSE row[k]]

\* UPDATE users and the response.
PatchUserUpdate(r) ==
    /\ r.op = "update_user" /\ r.pc = "update"
    /\ IF r.user_id \notin DOMAIN users
       THEN /\ users' = users
            /\ NoEmit
            /\ Reply(r, "update_user", 404, "USER_NOT_FOUND")
       ELSE IF UsersUniqueViolation(r.user_id, UpdatedRow(users[r.user_id], r.updateData))
       THEN /\ users' = users
            /\ NoEmit
            /\ Reply(r, "update_user", 500, "INTERNAL_SERVER_ERROR")
       ELSE /\ users' = [users EXCEPT ![r.user_id] = UpdatedRow(@, r.updateData)]
            /\ Emit(<< [room |-> Everyone,
                        event |-> Event("user/updated",
                                        UpdatedRow(users[r.user_id], r.updateData))] >>)
            /\ Reply(r, "update_user", 200, NoValue)
    /\ UNCHANGED <<properties, availability, bookings, conversations,
                   notifications, reviews, nreq, messages>>

(***************************************************************************)
(* GET /api/properties                                                     *)
(***************************************************************************)
Digits == <<"0", "1", "2", "3", "4", "5", "6", "7", "8", "9">>

IsDigit(c) == \E k \in DOMAIN Digits : Digits[k] = c

DigitValue(c) == (CHOOSE k \in DOMAIN Digits : Digits[k] = c) - 1

\* The value of the run of digits of s that starts at position i, after acc.
RECURSIVE ParseDigits(_, _, _)
ParseDigits(s, i, acc) ==
    IF i > Len(s) \/ ~IsDigit(s[i])
    THEN acc
    ELSE ParseDigits(s, i + 1, acc * 10 + DigitValue(s[i]))

NaN == [nan |-> TRUE, n |-> 0]

\* parseInt of a text without leading blanks: an optional minus sign and the
\* digits that follow it, NaN when there is no digit.
parseInt(s) ==
    LET start == IF Len(s) > 0 /\ s[1] = "-" THEN 2 ELSE 1
    IN  IF start > Len(s) \/ ~IsDigit(s[start])
        THEN NaN
        ELSE [nan |-> FALSE,
              n |-> IF start = 2 THEN 0 - ParseDigits(s, start, 0)
                    ELSE ParseDigits(s, start, 0)]

\* parseFloat of a text that has no fractional part.
parseFloat(s) == parseInt(s)

\* A query parameter that is absent and one that is the empty text take the
\* same branches of this handler: both are the empty text here.
Given(text) == text # << >>

\* req.query.x ? parse(req.query.x) || undefined : undefined
NumberOrUndefined(parsed, text) ==
    IF Given(text) /\ ~parsed.nan /\ parsed.n # 0
    THEN [given |-> TRUE, n |-> parsed.n]
    ELSE [given |-> FALSE, n |-> 0]

searchParams(query) ==
    [location |-> query.location,
     check_in |-> query.check_in,
     check_out |-> query.check_out,
     guests |-> NumberOrUndefined(parseInt(query.guests), query.guests),
     price_min |-> NumberOrUndefined(parseFloat(query.price_min), query.price_min),
     price_max |-> NumberOrUndefined(parseFloat(query.price_max), query.price_max),
     property_type |-> query.property_type,
     amenities |-> query.amenities,
     sort_by |-> query.sort_by,
     limit |-> parseInt(IF Given(query.limit) THEN query.limit ELSE <<"1", "0">>),
     offset |-> parseInt(IF Given(query.offset) THEN query.offset ELSE <<"0">>)]

\* A variant of the filter below that lets every property through.
IsActiveFilterOff(property) == TRUE

\* WHERE is_active = true
IsActiveFilter(property) == property.is_active

\* The properties that have a record is_available = false on a date between
\* check_in and check_out.
UnavailableBetween(check_in, check_out) ==
    {availability[i].property_id : i \in
        {j \in DOMAIN availability :
            /\ Between(availability[j].date, check_in, check_out)
            /\ availability[j].is_available = FALSE}}

\* The WHERE clause built from the search parameters.
SearchWhere(p, sp) ==
    /\ IsActiveFilter(properties[p])
    /\ Given(sp.location) =>
          \/ ILike(properties[p].city, sp.location)
          \/ ILike(properties[p].neighborhood, sp.location)
    /\ sp.guests.given => properties[p].guest_capacity >= sp.guests.n
    /\ sp.price_min.given => properties[p].base_price_per_night >= sp.price_min.n
    /\ sp.price_max.given => properties[p].base_price_per_night <= sp.price_max.n
    /\ sp.property_type # NoValue => properties[p].property_type = sp.property_type
    /\ Given(sp.amenities) => ILike(properties[p].amenities, sp.amenities)
    /\ (Given(sp.check_in) /\ Given(sp.check_out)) =>
          p \notin UnavailableBetween(sp.check_in, sp.check_out)

\* ORDER BY: whether property a comes before property b.
SearchOrder(a, b, sort_by) ==
    IF sort_by = "price_low_to_high"
    THEN properties[a].base_price_per_night < properties[b].base_price_per_night
    ELSE IF sort_by = "price_high_to_low"
    THEN properties[a].base_price_per_night > properties[b].base_price_per_night
    ELSE /\ properties[a].created_at # properties[b].created_at
         /\ TextLeq(properties[b].created_at, properties[a].created_at)

\* The selected rows in the order of ORDER BY.  No two rows of the store have
\* the same price or the same created_at, so the order is determined.
SearchSorted(sp) ==
    LET selected == {p \in DOMAIN properties : SearchWhere(p, sp)}
        n == Cardinality(selected)
    IN  [i \in 1..n |->
            CHOOSE p \in selected :
                Cardinality({q \in selected : SearchOrder(q, p, sp.sort_by)}) = i - 1]

\* LIMIT limit OFFSET offset
Page(rows, limit, offset) ==
    SubSeq(rows, offset + 1,
           IF offset + limit < Len(rows) THEN offset + limit ELSE Len(rows))

\* The response of a search: its rows (the property_id of each) or, when the
\* store rejects the LIMIT or OFFSET value, the error.
SearchResponse(query) ==
    LET sp == searchParams(query)
    IN  IF sp.limit.nan \/ sp.offset.nan \/ sp.limit.n < 0 \/ sp.offset.n < 0
        THEN Response("search_properties", 500, "INTERNAL_SERVER_ERROR")
        ELSE [op |-> "search_properties", code |-> 200, error |-> NoValue,
              properties |-> Page(SearchSorted(sp), sp.limit.n, sp.offset.n)]

\* The search query; the count query that follows it only fills total_count,
\* which is not part of the response kept here.
SearchProperties(query) ==
    /\ Receive
    /\ reqs' = reqs
    /\ resp' = SearchResponse(query)
    /\ UNCHANGED <<users, properties, availability, bookings, conversations,
                   notifications, reviews, messages, sockets>>

(***************************************************************************)
(* GET /api/bookings                                                       *)
(***************************************************************************)
\* bookingParams: the filters as the texts of the query (NoValue or the empty
\* text when absent), limit and offset through parseInt with the defaults
\* '10' and '0'.
bookingParams(query) ==
    [property_id |-> query.property_id,
     guest_id |-> query.guest_id,
     host_id |-> query.host_id,
     status |-> query.status,
     start_date |-> query.start_date,
     end_date |-> query.end_date,
     limit |-> parseInt(IF Given(query.limit) THEN query.limit ELSE <<"1", "0">>),
     offset |-> parseInt(IF Given(query.offset) THEN query.offset ELSE <<"0">>)]

\* A variant of the WHERE clause below without the condition on the user.
BookingsWhereOfAnyUser(row, user, bp) ==
    /\ bp.property_id # NoValue => row.property_id = bp.property_id
    /\ bp.guest_id # NoValue => row.guest_id = bp.guest_id
    /\ bp.host_id # NoValue => row.host_id = bp.host_id
    /\ bp.status # NoValue => row.status = bp.status
    /\ (Given(bp.start_date) /\ Given(bp.end_date)) =>
          Between(row.check_in, bp.start_date, bp.end_date)

\* The WHERE clause: for a user who is not an admin the row is one of the
\* user's own (guest_id = $1 OR host_id = $1), then the filters given.
BookingsWhere(row, user, bp) ==
    /\ user.role # "admin" => (row.guest_id = user.user_id \/ row.host_id = user.user_id)
    /\ bp.property_id # NoValue => row.property_id = bp.property_id
    /\ bp.guest_id # NoValue => row.guest_id = bp.guest_id
    /\ bp.host_id # NoValue => row.host_id = bp.host_id
    /\ bp.status # NoValue => row.status = bp.status
    /\ (Given(bp.start_date) /\ Given(bp.end_date)) =>
          Between(row.check_in, bp.start_date, bp.end_date)

\* SELECT * FROM bookings WHERE ... ORDER BY created_at DESC over a table of
\* bookings (its rows by booking_id): the later a booking was created the
\* higher its position, so the order is that of falling positions.
BookingsSorted(table, user, bp) ==
    LET selected == {b \in DOMAIN table : BookingsWhere(table[b], user, bp)}
        n == Cardinality(selected)
    IN  [i \in 1..n |->
            LET b == CHOOSE c \in selected :
                        Cardinality({d \in selected : d > c}) = i - 1
            IN  [booking_id |-> b, row |-> table[b]]]

\* Whether the store runs the query: it rejects a LIMIT or OFFSET that is not
\* a number or is negative.
BookingsQueryRuns(bp) ==
    ~bp.limit.nan /\ ~bp.offset.nan /\ bp.limit.n >= 0 /\ bp.offset.n >= 0

\* The rows of the select of the handler.
BookingsList(table, user, query) ==
    LET bp == bookingParams(query)
    IN  Page(BookingsSorted(table, user, bp), bp.limit.n, bp.offset.n)

\* Token lookup and the select.
SearchBookingsSelect(token, query) ==
    /\ Receive
    /\ LET auth == authenticateToken(token)
       IN  IF ~auth.ok
           THEN ReplyAtOnce("search_bookings", auth.code, auth.error)
           ELSE IF ~BookingsQueryRuns(bookingParams(query))
           THEN ReplyAtOnce("search_bookings", 500, "INTERNAL_SERVER_ERROR")
           ELSE Enter([op |-> "search_bookings", pc |-> "count", user |-> auth.user,
                       rows |-> BookingsList(bookings, auth.user, query)])
    /\ UNCHANGED <<users, properties, availability, bookings, conversations,
                   notifications, reviews, messages, sockets>>

\* SELECT COUNT(*) FROM bookings WHERE 1=1 and the response.
SearchBookingsCount(r) ==
    /\ r.op = "search_bookings" /\ r.pc = "count"
    /\ reqs' = reqs (-) SetToBag({r})
    /\ resp' = [op |-> "search_bookings", code |-> 200, error |-> NoValue,
                user_id |-> r.user.user_id, bookings |-> r.rows,
                total_count |-> Len(bookings)]
    /\ UNCHANGED <<users, properties, availability, bookings, conversations,
                   notifications, reviews, nreq, messages, sockets>>

(***************************************************************************)
(* GET /api/properties/:property_id                                        *)
(***************************************************************************)
GetProperty(property_id) ==
    /\ Receive
    /\ reqs' = reqs
    /\ resp' = IF property_id \notin DOMAIN properties
               THEN Response("get_property", 404, "PROPERTY_NOT_FOUND")
               ELSE [op |-> "get_property", code |-> 200, error |-> NoValue,
                     property_id |-> property_id, property |-> properties[property_id]]
    /\ UNCHANGED <<users, properties, availability, bookings, conversations,
                   notifications, reviews, messages, sockets>>

(***************************************************************************)
(* PATCH /api/properties/:property_id                                      *)
(***************************************************************************)
\* updatePropertyInputSchema: every field but property_id is optional.
updatePropertyInputSchema(body) ==
    IF \/ "is_active" \in DOMAIN body /\ body.is_active \notin BOOLEAN
       \/ "base_price_per_night" \in DOMAIN body /\ body.base_price_per_night <= 0
    THEN [ok |-> FALSE]
    ELSE [ok |-> TRUE, data |-> body]

\* A variant of the check below that lets every host through.
IsOwnerOrAnyHost(user, host_id) ==
    host_id = user.user_id \/ user.role \in {"admin", "host"}

\* Whether the user may change the property: its host or an admin.
IsOwnerOrAdmin(user, host_id) ==
    host_id = user.user_id \/ user.role = "admin"

\* Token lookup, the owner lookup, the ownership check and body validation.
PatchPropertyOwnerCheck(token, property_id, body) ==
    /\ Receive
    /\ LET auth == authenticateToken(token)
           parsed == updatePropertyInputSchema(body)
       IN  IF ~auth.ok
           THEN ReplyAtOnce("update_property", auth.code, auth.error)
           ELSE IF property_id \notin DOMAIN properties
           THEN ReplyAtOnce("update_property", 404, "PROPERTY_NOT_FOUND")
           ELSE IF ~IsOwnerOrAdmin(auth.user, properties[property_id].host_id)
           THEN ReplyAtOnce("update_property", 403, "FORBIDDEN_ACCESS")
           ELSE IF ~parsed.ok
           THEN ReplyAtOnce("update_property", 400, "VALIDATION_ERROR")
           ELSE IF DOMAIN parsed.data = {}
           THEN ReplyAtOnce("update_property", 400, "NO_UPDATE_FIELDS")
           ELSE Enter([op |-> "update_property", pc |-> "update",
                       property_id |-> property_id, updateData |-> parsed.data])
    /\ UNCHANGED <<users, properties, availability, bookings, conversations,
                   notifications, reviews, messages, sockets>>

\* UPDATE properties and the response; host_id REFERENCES users(user_id).
PatchPropertyUpdate(r) ==
    /\ r.op = "update_property" /\ r.pc = "update"
    /\ IF "host_id" \in DOMAIN r.updateData /\ r.updateData.host_id \notin DOMAIN users
       THEN /\ properties' = properties
            /\ NoEmit
            /\ Reply(r, "update_property", 500, "INTERNAL_SERVER_ERROR")
       ELSE /\ properties' = [properties EXCEPT ![r.property_id] =
                                 UpdatedRow(@, r.updateData)]
            /\ Emit(<< [room |-> Everyone,
                        event |-> Event("property/updated",
                                        UpdatedRow(properties[r.property_id],
                                                   r.updateData))] >>)
            /\ Reply(r, "update_property", 200, NoValue)
    /\ UNCHANGED <<users, availability, bookings, conversations, notifications,
                   reviews, nreq, messages>>

(***************************************************************************)
(* DELETE /api/properties/:property_id                                     *)
(***************************************************************************)
\* Token lookup, the owner lookup and the ownership check.
DeletePropertyOwnerCheck(token, property_id) ==
    /\ Receive
    /\ LET auth == authenticateToken(token)
       IN  IF ~auth.ok
           THEN ReplyAtOnce("delete_property", auth.code, auth.error)
           ELSE IF property_id \notin DOMAIN properties
           THEN ReplyAtOnce("delete_property", 404, "PROPERTY_NOT_FOUND")
           ELSE IF ~IsOwnerOrAdmin(auth.user, properties[property_id].host_id)
           THEN ReplyAtOnce("delete_property", 403, "FORBIDDEN_ACCESS")
           ELSE Enter([op |-> "delete_property", pc |-> "update",
                       property_id |-> property_id])
    /\ UNCHANGED <<users, properties, availability, bookings, conversations,
                   notifications, reviews, messages, sockets>>

\* UPDATE properties SET is_active = false and the response.
DeletePropertyUpdate(r) ==
    /\ r.op = "delete_property" /\ r.pc = "update"
    /\ properties' = [properties EXCEPT ![r.property_id].is_active = FALSE]
    /\ Emit(<< [room |-> Everyone,
                event |-> Event("property/deleted", [property_id |-> r.property_id])] >>)
    /\ Reply(r, "delete_property", 204, NoValue)
    /\ UNCHANGED <<users, availability, bookings, conversations, notifications,
                   reviews, nreq, messages>>

(***************************************************************************)
(* POST /api/conversations                                                 *)
(***************************************************************************)
\* createConversationInputSchema: booking_id and host_id are required texts
\* of the body; guest_id is overwritten with the authenticated user.
createConversationInputSchema(body, guest_id) ==
    IF {"booking_id", "host_id"} \subseteq DOMAIN body
    THEN [ok |-> TRUE,
          data |-> [booking_id |-> body.booking_id, guest_id |-> guest_id,
                    host_id |-> body.host_id]]
    ELSE [ok |-> FALSE]

\* SELECT * FROM bookings WHERE booking_id = $1 AND (guest_id = $2 OR host_id = $2)
BookingOfParticipant(booking_id, user_id) ==
    /\ booking_id \in DOMAIN bookings
    /\ \/ bookings[booking_id].guest_id = user_id
       \/ bookings[booking_id].host_id = user_id

\* Token lookup, body validation and the booking lookup.
CreateConversationBookingCheck(token, body) ==
    /\ Receive
    /\ LET auth == authenticateToken(token)
           parsed == createConversationInputSchema(body, auth.user.user_id)
       IN  IF ~auth.ok
           THEN ReplyAtOnce("create_conversation", auth.code, auth.error)
           ELSE IF ~parsed.ok
           THEN ReplyAtOnce("create_conversation", 400, "VALIDATION_ERROR")
           ELSE IF ~BookingOfParticipant(parsed.data.booking_id, auth.user.user_id)
           THEN ReplyAtOnce("create_conversation", 404, "BOOKING_NOT_FOUND")
           ELSE Enter([op |-> "create_conversation", pc |-> "existing_conversation",
                       conversationData |-> parsed.data])
    /\ UNCHANGED <<users, properties, availability, bookings, conversations,
                   notifications, reviews, messages, sockets>>

\* The lookup of a conversation of the booking: when there is one it is the
\* answer.
CreateConversationExistingCheck(r) ==
    /\ r.op = "create_conversation" /\ r.pc = "existing_conversation"
    /\ IF \E i \in DOMAIN conversations :
             conversations[i].booking_id = r.conversationData.booking_id
       THEN Reply(r, "create_conversation", 200, NoValue)
       ELSE Continue(r, [r EXCEPT !.pc = "insert"])
    /\ UNCHANGED <<users, properties, availability, bookings, conversations,
                   notifications, reviews, nreq, messages, sockets>>

\* INSERT INTO conversations and the response; host_id REFERENCES users, and
\* the table has no unique constraint on booking_id.
CreateConversationInsert(r) ==
    /\ r.op = "create_conversation" /\ r.pc = "insert"
    /\ IF r.conversationData.host_id \notin DOMAIN users
       THEN /\ conversations' = conversations
            /\ NoEmit
            /\ Reply(r, "create_conversation", 500, "INTERNAL_SERVER_ERROR")
       ELSE /\ conversations' = Append(conversations, r.conversationData)
            /\ Emit(<< [room |-> Everyone,
                        event |-> Event("conversation/created", r.conversationData)] >>)
            /\ Reply(r, "create_conversation", 201, NoValue)
    /\ UNCHANGED <<users, properties, availability, bookings, notifications,
                   reviews, nreq, messages>>

(***************************************************************************)
(* POST /api/conversations/:conversation_id/messages                       *)
(***************************************************************************)
\* A variant of the object spread below in which the entries of the body
\* come last and win.
SpreadBodyLast(body, overrides) ==
    [k \in DOMAIN body \cup DOMAIN overrides |->
        IF k \in DOMAIN body THEN body[k] ELSE overrides[k]]

\* { ...req.body, key: value, ... }: the entries of the body, each replaced by
\* the entry of the same key that is written after the spread.
Spread(body, overrides) ==
    [k \in DOMAIN body \cup DOMAIN overrides |->
        IF k \in DOMAIN overrides THEN overrides[k] ELSE body[k]]

\* createMessageInputSchema: sender_id and content are texts of at least one
\* character (the upper limit of 1000 characters of content is not modelled).
createMessageInputSchema(input) ==
    /\ "sender_id" \in DOMAIN input /\ input.sender_id # ""
    /\ "content" \in DOMAIN input /\ input.content # ""

\* Token lookup, the conversation lookup, the participant check and body
\* validation.
PostMessageConversationCheck(token, conversation_id, body) ==
    /\ Receive
    /\ LET auth == authenticateToken(token)
           input == Spread(body, [conversation_id |-> conversation_id,
                                  sender_id |-> auth.user.user_id])
       IN  IF ~auth.ok
           THEN ReplyAtOnce("post_message", auth.code, auth.error)
           ELSE IF conversation_id \notin DOMAIN conversations
           THEN ReplyAtOnce("post_message", 404, "CONVERSATION_NOT_FOUND")
           ELSE IF /\ conversations[conversation_id].guest_id # auth.user.user_id
                   /\ conversations[conversation_id].host_id # auth.user.user_id
           THEN ReplyAtOnce("post_message", 403, "FORBIDDEN_ACCESS")
           ELSE IF ~createMessageInputSchema(input)
           THEN ReplyAtOnce("post_message", 400, "VALIDATION_ERROR")
           ELSE Enter([op |-> "post_message", pc |-> "insert",
                       user |-> auth.user, conversation_id |-> conversation_id,
                       messageData |-> [sender_id |-> input.sender_id,
                                        content |-> input.content]])
    /\ UNCHANGED <<users, properties, availability, bookings, conversations,
                   notifications, reviews, messages, sockets>>

\* The message row the handler inserts.
NewMessage(r) ==
    [conversation_id |-> r.conversation_id, sender_id |-> r.messageData.sender_id,
     content |-> r.messageData.content, is_read |-> FALSE]

PostMessageInsert(r) ==
    /\ r.op = "post_message" /\ r.pc = "insert"
    /\ messages' = Append(messages, NewMessage(r))
    /\ Continue(r, [r EXCEPT !.pc = "touch_conversation"])
    /\ UNCHANGED <<users, properties, availability, bookings, conversations,
                   notifications, reviews, nreq, sockets>>

\* UPDATE conversations SET updated_at (a column that is not modelled), the
\* emit to the room of the conversation and the response.
PostMessageTouchConversation(r) ==
    /\ r.op = "post_message" /\ r.pc = "touch_conversation"
    /\ Emit(<< [room |-> ConversationRoom(r.conversation_id),
                event |-> Event("message/created", NewMessage(r))] >>)
    /\ Reply(r, "post_message", 201, NoValue)
    /\ UNCHANGED <<users, properties, availability, bookings, conversations,
                   notifications, reviews, nreq, messages>>

(***************************************************************************)
(* PATCH /api/messages/:message_id                                         *)
(***************************************************************************)
\* updateMessageInputSchema: conversation_id, sender_id, content and is_read
\* are optional; content, when given, has at least one character.
updateMessageInputSchema(body) ==
    IF \/ "content" \in DOMAIN body /\ body.content = ""
       \/ "is_read" \in DOMAIN body /\ body.is_read \notin BOOLEAN
    THEN [ok |-> FALSE]
    ELSE [ok |-> TRUE, data |-> body]

\* Token lookup, the lookup of the message joined with its conversation, the
\* access check and body validation.
UpdateMessageCheck(token, message_id, body) ==
    /\ Receive
    /\ LET auth == authenticateToken(token)
           parsed == updateMessageInputSchema(body)
           conversation == conversations[messages[message_id].conversation_id]
       IN  IF ~auth.ok
           THEN ReplyAtOnce("update_message", auth.code, auth.error)
           ELSE IF message_id \notin DOMAIN messages
           THEN ReplyAtOnce("update_message", 404, "MESSAGE_NOT_FOUND")
           ELSE IF /\ conversation.guest_id # auth.user.user_id
                   /\ conversation.host_id # auth.user.user_id
                   /\ auth.user.role # "admin"
           THEN ReplyAtOnce("update_message", 403, "FORBIDDEN_ACCESS")
           ELSE IF ~parsed.ok
           THEN ReplyAtOnce("update_message", 400, "VALIDATION_ERROR")
           ELSE IF DOMAIN parsed.data = {}
           THEN ReplyAtOnce("update_message", 400, "NO_UPDATE_FIELDS")
           ELSE Enter([op |-> "update_message", pc |-> "update",
                       message_id |-> message_id, updateData |-> parsed.data])
    /\ UNCHANGED <<users, properties, availability, bookings, conversations,
                   notifications, reviews, messages, sockets>>

\* The parameter numbers in the text of the UPDATE: $1 .. $n for the n
\* fields of SET (paramCount starts at 1 and is raised after each field),
\* and $(paramCount + 1) = $(n + 2) in WHERE message_id = ...
UpdateMessagePlaceholders(updateData) ==
    (1 .. Cardinality(DOMAIN updateData)) \cup {Cardinality(DOMAIN updateData) + 2}

\* The number of values sent with the UPDATE: one for each field and
\* message_id.
UpdateMessageValues(updateData) == Cardinality(DOMAIN updateData) + 1

\* The store runs a statement when its parameter numbers are those of the
\* values sent with it, and rejects it otherwise.
BindsValues(placeholders, count) == placeholders = 1 .. count

\* UPDATE messages, the emit to the room of the conversation and the
\* response.
UpdateMessageUpdate(r) ==
    /\ r.op = "update_message" /\ r.pc = "update"
    /\ IF ~BindsValues(UpdateMessagePlaceholders(r.updateData),
                       UpdateMessageValues(r.updateData))
       THEN /\ messages' = messages
            /\ NoEmit
            /\ Reply(r, "update_message", 500, "INTERNAL_SERVER_ERROR")
       ELSE LET updatedMessage == UpdatedRow(messages[r.message_id], r.updateData)
            IN  /\ messages' = [messages EXCEPT ![r.message_id] = updatedMessage]
                /\ Emit(<< [room |-> ConversationRoom(updatedMessage.conversation_id),
                            event |-> Event("message/updated", updatedMessage)] >>)
                /\ Reply(r, "update_message", 200, NoValue)
    /\ UNCHANGED <<users, properties, availability, bookings, conversations,
                   notifications, reviews, nreq>>

(***************************************************************************)
(* GET /api/notifications                                                  *)
(***************************************************************************)
\* SELECT * FROM notifications WHERE user_id = $1
NotificationsOf(user_id) ==
    [row \in {x \in BagToSet(notifications) : x.user_id = user_id} |->
        notifications[row]]

\* The request without query parameters: LIMIT 10 OFFSET 0, which is every
\* row of the user as long as the user has at most ten.
GetNotifications(token) ==
    /\ Receive
    /\ reqs' = reqs
    /\ LET auth == authenticateToken(token)
       IN  IF ~auth.ok
           THEN resp' = Response("get_notifications", auth.code, auth.error)
           ELSE resp' = [op |-> "get_notifications", code |-> 200, error |-> NoValue,
                         user_id |-> auth.user.user_id,
                         rows |-> NotificationsOf(auth.user.user_id)]
    /\ UNCHANGED <<users, properties, availability, bookings, conversations,
                   notifications, reviews, messages, sockets>>

(***************************************************************************)
(* Sockets: io.use and io.on('connection')                                 *)
(***************************************************************************)
\* A client connects: the middleware resolves the user of the handshake
\* token or refuses the connection; the connection handler joins the room
\* of the user and sends the query for the user's conversations.
ConnectSocket(client, token) ==
    /\ ~sockets[client].connected
    /\ LET auth == authenticateToken(token)
       IN  IF ~auth.ok
           THEN sockets' = sockets
           ELSE sockets' = [sockets EXCEPT ![client] =
                               [user |-> auth.user, rooms |-> {},
                                pc |-> "joining", connected |-> TRUE,
                                received |-> << >>]]
    /\ UNCHANGED <<users, properties, availability, bookings, conversations,
                   notifications, reviews, messages, reqs, resp, nreq>>

\* SELECT conversation_id FROM conversations WHERE guest_id = $1 OR host_id = $1
ConversationsOfUser(user_id) ==
    {c \in DOMAIN conversations :
        conversations[c].guest_id = user_id \/ conversations[c].host_id = user_id}

\* The query of the connection handler resolves: the socket joins the room
\* of each conversation the query returned.
JoinConversationRooms(client) ==
    /\ sockets[client].connected
    /\ sockets[client].pc = "joining"
    /\ sockets' = [sockets EXCEPT
                      ![client].rooms = ConversationsOfUser(sockets[client].user.user_id),
                      ![client].pc = "joined"]
    /\ UNCHANGED <<users, properties, availability, bookings, conversations,
                   notifications, reviews, messages, reqs, resp, nreq>>

\* The client disconnects: the socket leaves its rooms and is gone.
DisconnectSocket(client) ==
    /\ sockets[client].connected
    /\ sockets' = [sockets EXCEPT ![client] = NoSocket]
    /\ UNCHANGED <<users, properties, availability, bookings, conversations,
                   notifications, reviews, messages, reqs, resp, nreq>>

(***************************************************************************)
(* GET /api/properties/:property_id/availability                           *)
(***************************************************************************)
\* SELECT * FROM property_availability WHERE property_id = $1 [AND date
\* BETWEEN $2 AND $3]: the positions of the selected rows. The range applies
\* only when both of its ends are given.
AvailabilitySelected(property_id, start_date, end_date) ==
    {i \in DOMAIN availability :
        /\ availability[i].property_id = property_id
        /\ (start_date # << >> /\ end_date # << >>)
              => Between(availability[i].date, start_date, end_date)}

\* ORDER BY date ASC: the selected rows, the earlier date first (rows of one
\* date in the order of the table).
AvailabilitySorted(selected) ==
    [n \in 1..Cardinality(selected) |->
        availability[CHOOSE i \in selected :
            Cardinality({j \in selected :
                \/ availability[j].date # availability[i].date
                      /\ TextLeq(availability[j].date, availability[i].date)
                \/ availability[j].date = availability[i].date /\ j < i}) = n - 1]]

GetAvailability(property_id, start_date, end_date) ==
    /\ Receive
    /\ reqs' = reqs
    /\ resp' = [op |-> "get_availability", code |-> 200, error |-> NoValue,
                rows |-> AvailabilitySorted(
                            AvailabilitySelected(property_id, start_date, end_date))]
    /\ UNCHANGED <<users, properties, availability, bookings, conversations,
                   notifications, reviews, messages, sockets>>

(***************************************************************************)
(* POST /api/properties/:property_id/availability                          *)
(***************************************************************************)
\* createPropertyAvailabilityInputSchema: date is coerced to a Date, so a
\* text whose month or day is out of range fails; is_available defaults to
\* true (price_override, a column that is not modelled, is validated too).
createPropertyAvailabilityInputSchema(body) ==
    IF body.date[2] \notin 1..12 \/ body.date[3] \notin 1..31
    THEN [ok |-> FALSE]
    ELSE [ok |-> TRUE,
          data |-> [date |-> body.date,
                    is_available |-> IF "is_available" \in DOMAIN body
                                     THEN body.is_available ELSE TRUE]]

\* Token lookup, the owner lookup, the ownership check and body validation.
SetAvailabilityOwnerCheck(token, property_id, body) ==
    /\ Receive
    /\ LET auth == authenticateToken(token)
           parsed == createPropertyAvailabilityInputSchema(body)
       IN  IF ~auth.ok
           THEN ReplyAtOnce("set_availability", auth.code, auth.error)
           ELSE IF property_id \notin DOMAIN properties
           THEN ReplyAtOnce("set_availability", 404, "PROPERTY_NOT_FOUND")
           ELSE IF ~IsOwnerOrAdmin(auth.user, properties[property_id].host_id)
           THEN ReplyAtOnce("set_availability", 403, "FORBIDDEN_ACCESS")
           ELSE IF ~parsed.ok
           THEN ReplyAtOnce("set_availability", 400, "VALIDATION_ERROR")
           ELSE Enter([op |-> "set_availability", pc |-> "insert",
                       property_id |-> property_id,
                       availabilityData |-> parsed.data])
    /\ UNCHANGED <<users, properties, availability, bookings, conversations,
                   notifications, reviews, messages, sockets>>

\* The unique indexes of table property_availability: its primary key only.
PropertyAvailabilityUniqueIndexes == { {"availability_id"} }

\* The columns named by ON CONFLICT (property_id, date).
OnConflictTarget == {"property_id", "date"}

\* INSERT ... ON CONFLICT (property_id, date) DO UPDATE on a table with the
\* given rows: the row with the key is overwritten, or a row is appended.
Upsert(rows, row) ==
    IF \E i \in DOMAIN rows :
          rows[i].property_id = row.property_id /\ rows[i].date = row.date
    THEN [i \in DOMAIN rows |->
             IF rows[i].property_id = row.property_id /\ rows[i].date = row.date
             THEN [rows[i] EXCEPT !.is_available = row.is_available]
             ELSE rows[i]]
    ELSE Append(rows, row)

\* The INSERT and the response. The statement is rejected when no unique
\* index of the table matches the columns of ON CONFLICT.
SetAvailabilityInsert(r) ==
    /\ r.op = "set_availability" /\ r.pc = "insert"
    /\ IF OnConflictTarget \notin PropertyAvailabilityUniqueIndexes
       THEN /\ availability' = availability
            /\ NoEmit
            /\ Reply(r, "set_availability", 500, "INTERNAL_SERVER_ERROR")
       ELSE /\ availability' =
                  Upsert(availability,
                         [property_id |-> r.property_id,
                          date |-> DateParameter(r.availabilityData.date),
                          is_available |-> r.availabilityData.is_available])
            /\ Emit(<< [room |-> Everyone,
                        event |-> Event("property_availability/created",
                                        [property_id |-> r.property_id,
                                         date |-> DateParameter(r.availabilityData.date),
                                         is_available |-> r.availabilityData.is_available])] >>)
            /\ Reply(r, "set_availability", 201, NoValue)
    /\ UNCHANGED <<users, properties, bookings, conversations, notifications,
                   reviews, nreq, messages>>

(***************************************************************************)
(* The seeded store.                                                       *)
(***************************************************************************)
Init ==
    /\ users = SeedUsers
    /\ properties = SeedProperties
    /\ availability = SeedAvailability
    /\ bookings = SeedBookings
    /\ conversations = SeedConversations
    /\ notifications = SeedNotifications
    /\ reviews = SeedReviews
    /\ messages = SeedMessages
    /\ sockets = [client \in Clients |-> NoSocket]
    /\ reqs = EmptyBag
    /\ resp = NoResponse
    /\ nreq = 0

\* The requests enumerated: the users that send them, the bookings they name
\* (book_002, the bookings created since, and one id that names no booking)
\* and their bodies.
Actors == {"user_002", "user_003", "user_004", "user_005"}

BookingIdInputs == 2..(Len(bookings) + 1)

UpdateBookingBodies ==
    [status : Statuses \cup {NoValue, "bogus"}, host_id : {NoValue}]

CreateReviewBodies == [overall_rating : {0, 5}]

CreateBookingBodies ==
    [property_id : {"prop_003", "prop_missing"}, check_in : {<<2023, 8, 1>>},
     status : {NoValue, "confirmed", "bogus"}]

(***************************************************************************)
(* Spec: the lifecycle of a booking (reads, status updates and reviews).    *)
(***************************************************************************)
Next ==
    \/ \E token \in Actors, booking_id \in BookingIdInputs, body \in UpdateBookingBodies :
          UpdateBookingCheck(token, booking_id, body)
    \/ \E r \in BagToSet(reqs) : UpdateBookingUpdate(r)
    \/ \E r \in BagToSet(reqs) : UpdateBookingInsertNotification(r)
    \/ \E token \in Actors, booking_id \in BookingIdInputs, body \in CreateReviewBodies :
          CreateReviewBookingCheck(token, booking_id, body)
    \/ \E r \in BagToSet(reqs) : CreateReviewExistingCheck(r)
    \/ \E r \in BagToSet(reqs) : CreateReviewInsertReview(r)
    \/ \E r \in BagToSet(reqs) : CreateReviewInsertNotification(r)
    \/ \E token \in Actors, booking_id \in BookingIdInputs :
          GetBooking(token, booking_id)

Spec == Init /\ [][Next]_vars

(***************************************************************************)
(* SpecCreate: the creation of bookings.                                   *)
(***************************************************************************)
\* The users that book: a guest, and the host of the booked property itself.
BookingGuests == {"user_002", "user_003"}

NextCreate ==
    \/ \E token \in BookingGuests, body \in CreateBookingBodies :
          CreateBookingPropertyCheck(token, body)
    \/ \E r \in BagToSet(reqs) : CreateBookingInsertBooking(r)
    \/ \E r \in BagToSet(reqs) : CreateBookingInsertConversation(r)
    \/ \E r \in BagToSet(reqs) : CreateBookingInsertNotification(r)

SpecCreate == Init /\ [][NextCreate]_vars

(***************************************************************************)
(* SpecSearch: the property search and what switches a property on or off. *)
(***************************************************************************)
PropertyIdInputs == {"prop_001", "prop_003", "prop_missing"}

UpdatePropertyBodies ==
    { << >>, [is_active |-> FALSE], [is_active |-> TRUE], [host_id |-> "user_004"],
      [base_price_per_night |-> 0] }

ActivationBodies == { [is_active |-> FALSE], [is_active |-> TRUE] }

\* The queries enumerated: every combination of the filters on the columns of
\* a property, and every combination of dates, order and page.
NoQuery ==
    [location |-> << >>, check_in |-> << >>, check_out |-> << >>, guests |-> << >>,
     price_min |-> << >>, price_max |-> << >>, property_type |-> NoValue,
     amenities |-> << >>, sort_by |-> NoValue, limit |-> << >>, offset |-> << >>]

ColumnQueries ==
    {[NoQuery EXCEPT !.location = f.location, !.guests = f.guests,
                     !.price_min = f.price_min, !.price_max = f.price_max,
                     !.property_type = f.property_type, !.amenities = f.amenities] :
        f \in [location : {<< >>, <<"t", "r", "i">>},
               guests : {<< >>, <<"0">>, <<"5">>},
               price_min : {<< >>, <<"1", "0", "0">>},
               price_max : {<< >>, <<"1", "3", "0">>},
               property_type : {NoValue, "house"},
               amenities : {<< >>, <<"t", "v">>}]}

DateQueries ==
    {[NoQuery EXCEPT !.check_in = f.check_in, !.check_out = f.check_out,
                     !.sort_by = f.sort_by, !.limit = f.limit, !.offset = f.offset] :
        f \in [check_in : {<< >>, <<2023, 5, 31>>, <<2023, 6, 3>>, <<2023, 6, 4>>},
               check_out : {<< >>, <<2023, 6, 3>>, <<2023, 6, 5>>},
               sort_by : {NoValue, "price_low_to_high", "price_high_to_low"},
               limit : {<< >>, <<"1">>, <<"-", "1">>},
               offset : {<< >>, <<"1">>}]}

SearchQueries == ColumnQueries \cup DateQueries

NextSearch ==
    \/ \E query \in SearchQueries : SearchProperties(query)
    \/ \E property_id \in PropertyIdInputs : GetProperty(property_id)
    \/ \E token \in Actors, property_id \in PropertyIdInputs,
          body \in ActivationBodies :
          PatchPropertyOwnerCheck(token, property_id, body)
    \/ \E r \in BagToSet(reqs) : PatchPropertyUpdate(r)
    \/ \E token \in Actors, property_id \in PropertyIdInputs :
          DeletePropertyOwnerCheck(token, property_id)
    \/ \E r \in BagToSet(reqs) : DeletePropertyUpdate(r)

SpecSearch == Init /\ [][NextSearch]_vars

(***************************************************************************)
(* SpecUsers: registration and the update of users and properties.         *)
(***************************************************************************)
RegisterBodies ==
    [email : { <<"a", "h", "m", "e", "d", ".", "a", "l", "i", "@", "e",
                 "x", "a", "m", "p", "l", "e", ".", "c", "o", "m">>,
               <<"A", "h", "m", "e", "d", ".", "A", "l", "i", "@", "e",
                 "x", "a", "m", "p", "l", "e", ".", "c", "o", "m">>,
               <<"n", "e", "w", "@", "e", "x", "a", "m", "p", "l", "e",
                 ".", "c", "o", "m">>,
               <<"n", "e", "w">> },
     phone_number : {"+218910000001", "+218920000000"},
     role : {"guest"}]

UserIdInputs == {"user_002", "user_missing"}

UpdateUserBodies ==
    { << >>, [role |-> "both"],
      [email |-> <<"n", "e", "w", "@", "e", "x", "a", "m", "p", "l", "e",
                   ".", "c", "o", "m">>] }

NextUsers ==
    \/ \E body \in RegisterBodies : RegisterLookup(body)
    \/ \E r \in BagToSet(reqs) : RegisterInsert(r)
    \/ \E token \in Actors, user_id \in UserIdInputs, body \in UpdateUserBodies :
          PatchUserCheck(token, user_id, body)
    \/ \E r \in BagToSet(reqs) : PatchUserUpdate(r)
    \/ \E token \in Actors, property_id \in PropertyIdInputs,
          body \in UpdatePropertyBodies :
          PatchPropertyOwnerCheck(token, property_id, body)
    \/ \E r \in BagToSet(reqs) : PatchPropertyUpdate(r)

SpecUsers == Init /\ [][NextUsers]_vars

(***************************************************************************)
(* SpecParties: the guest and the host of a booking, from its creation     *)
(* through later updates of the booking and of the booked property.        *)
(***************************************************************************)
\* The users that send the requests: the host of prop_003, who also books it,
\* and the guest of book_002.
PartyActors == {"user_003", "user_004"}

\* The bodies of POST /api/bookings, with and without a host_id of their own.
PartyBookingBodies ==
    [property_id : {"prop_003"}, check_in : {<<2023, 8, 1>>}, status : {NoValue},
     host_id : {NoValue, "user_004"}]

\* The bodies of PATCH /api/bookings/:booking_id.
PartyUpdateBodies ==
    [status : {NoValue, "cancelled"}, host_id : {NoValue, "user_004", "user_missing"}]

\* The body of the PATCH that hands prop_003 over to another user.
ReassignBodies == { [host_id |-> "user_004"] }

NextParties ==
    \/ \E token \in PartyActors, body \in PartyBookingBodies :
          CreateBookingPropertyCheck(token, body)
    \/ \E r \in BagToSet(reqs) : CreateBookingInsertBooking(r)
    \/ \E r \in BagToSet(reqs) : CreateBookingInsertConversation(r)
    \/ \E r \in BagToSet(reqs) : CreateBookingInsertNotification(r)
    \/ \E token \in PartyActors, booking_id \in BookingIdInputs, body \in PartyUpdateBodies :
          UpdateBookingCheck(token, booking_id, body)
    \/ \E r \in BagToSet(reqs) : UpdateBookingUpdate(r)
    \/ \E r \in BagToSet(reqs) : UpdateBookingInsertNotification(r)
    \/ \E body \in ReassignBodies : PatchPropertyOwnerCheck("user_003", "prop_003", body)
    \/ \E r \in BagToSet(reqs) : PatchPropertyUpdate(r)

SpecParties == Init /\ [][NextParties]_vars

(***************************************************************************)
(* SpecReviews: who reviews a booking, next to updates of the booking.     *)
(***************************************************************************)
\* The users that ask to review book_002: its host, its guest and an admin.
ReviewActors == {"user_003", "user_004", "user_005"}

\* The bodies of the PATCH of book_002 by its guest.
CompletionBodies == [status : {NoValue, "completed", "cancelled"}, host_id : {NoValue, "user_004"}]

NextReviews ==
    \/ \E body \in CompletionBodies : UpdateBookingCheck("user_004", 2, body)
    \/ \E r \in BagToSet(reqs) : UpdateBookingUpdate(r)
    \/ \E r \in BagToSet(reqs) : UpdateBookingInsertNotification(r)
    \/ \E token \in ReviewActors, booking_id \in BookingIdInputs, body \in CreateReviewBodies :
          CreateReviewBookingCheck(token, booking_id, body)
    \/ \E r \in BagToSet(reqs) : CreateReviewExistingCheck(r)
    \/ \E r \in BagToSet(reqs) : CreateReviewInsertReview(r)
    \/ \E r \in BagToSet(reqs) : CreateReviewInsertNotification(r)

SpecReviews == Init /\ [][NextReviews]_vars

(***************************************************************************)
(* SpecConversations: conversations opened by POST /api/bookings and by    *)
(* POST /api/conversations.                                                *)
(***************************************************************************)
\* The bodies of POST /api/conversations: the booking named, and the host_id
\* the body carries (the booking's host, another user, no user, or none).
ConversationBodies ==
    [booking_id : BookingIdInputs, host_id : {"user_003", "user_004", "user_missing"}]
        \cup [booking_id : BookingIdInputs]

NextConversations ==
    \/ \E body \in PartyBookingBodies : CreateBookingPropertyCheck("user_002", body)
    \/ \E r \in BagToSet(reqs) : CreateBookingInsertBooking(r)
    \/ \E r \in BagToSet(reqs) : CreateBookingInsertConversation(r)
    \/ \E r \in BagToSet(reqs) : CreateBookingInsertNotification(r)
    \/ \E token \in {"user_002", "user_003"}, body \in ConversationBodies :
          CreateConversationBookingCheck(token, body)
    \/ \E r \in BagToSet(reqs) : CreateConversationExistingCheck(r)
    \/ \E r \in BagToSet(reqs) : CreateConversationInsert(r)

SpecConversations == Init /\ [][NextConversations]_vars

(***************************************************************************)
(* SpecSockets: connected clients, and the handlers that emit             *)
(* notification/created to the room of a user.                             *)
(***************************************************************************)
\* The handshake tokens of each client: client_1 is used by the host of the
\* booked property (and once without a token), client_2 by the guest who
\* books.
SocketTokens ==
    [client \in Clients |->
        IF client = "client_1" THEN {"user_003", "missing"} ELSE {"user_002"}]

\* The body of the PATCH by which the guest of book_002 cancels it.
CancelBodies == { [status |-> "cancelled", host_id |-> NoValue] }

NextSockets ==
    \/ \E client \in Clients :
          \E token \in SocketTokens[client] : ConnectSocket(client, token)
    \/ \E client \in Clients : JoinConversationRooms(client)
    \/ \E client \in Clients : DisconnectSocket(client)
    \/ \E body \in PartyBookingBodies : CreateBookingPropertyCheck("user_002", body)
    \/ \E r \in BagToSet(reqs) : CreateBookingInsertBooking(r)
    \/ \E r \in BagToSet(reqs) : CreateBookingInsertConversation(r)
    \/ \E r \in BagToSet(reqs) : CreateBookingInsertNotification(r)
    \/ \E body \in CancelBodies : UpdateBookingCheck("user_004", 2, body)
    \/ \E r \in BagToSet(reqs) : UpdateBookingUpdate(r)
    \/ \E r \in BagToSet(reqs) : UpdateBookingInsertNotification(r)
    \/ GetNotifications("user_003")

SpecSockets == Init /\ [][NextSockets]_vars

(***************************************************************************)
(* SpecMessages: connected clients and the messages of conversations.      *)
(***************************************************************************)
\* The conversations named by POST .../messages: conv_002, the conversations
\* created since, and one id that names no conversation.
ConversationIdInputs == 2..(Len(conversations) + 1)

MessageBodies == { [content |-> "hello"], [content |-> ""] }

NextMessages ==
    \/ \E client \in Clients :
          \E token \in SocketTokens[client] : ConnectSocket(client, token)
    \/ \E client \in Clients : JoinConversationRooms(client)
    \/ \E client \in Clients : DisconnectSocket(client)
    \/ \E body \in PartyBookingBodies : CreateBookingPropertyCheck("user_002", body)
    \/ \E r \in BagToSet(reqs) : CreateBookingInsertBooking(r)
    \/ \E r \in BagToSet(reqs) : CreateBookingInsertConversation(r)
    \/ \E r \in BagToSet(reqs) : CreateBookingInsertNotification(r)
    \/ \E token \in {"user_002", "user_003"}, conversation_id \in ConversationIdInputs,
           body \in MessageBodies :
          PostMessageConversationCheck(token, conversation_id, body)
    \/ \E r \in BagToSet(reqs) : PostMessageInsert(r)
    \/ \E r \in BagToSet(reqs) : PostMessageTouchConversation(r)

SpecMessages == Init /\ [][NextMessages]_vars

(***************************************************************************)
(* SpecAvailability: the availability ledger of a property.                *)
(***************************************************************************)
\* The bodies of POST .../availability: a day the ledger holds, a day it does
\* not hold, and a text that is no date (month 13).
AvailabilityBodies ==
    [date : {<<2023, 6, 3>>, <<2023, 7, 1>>}, is_available : {TRUE, FALSE}]
        \cup [date : {<<2023, 7, 1>>, <<2023, 13, 1>>}]

\* The ranges of GET .../availability.
RangeStarts == { << >>, <<2023, 6, 1>>, <<2023, 6, 3>> }
RangeEnds == { << >>, <<2023, 6, 2>>, <<2023, 6, 3>> }

NextAvailability ==
    \/ \E property_id \in {"prop_001", "prop_missing"},
           start_date \in RangeStarts, end_date \in RangeEnds :
          GetAvailability(property_id, start_date, end_date)
    \/ \E token \in {"user_001", "user_002", "user_005"},
           property_id \in {"prop_001", "prop_missing"}, body \in AvailabilityBodies :
          SetAvailabilityOwnerCheck(token, property_id, body)
    \/ \E r \in BagToSet(reqs) : SetAvailabilityInsert(r)

SpecAvailability == Init /\ [][NextAvailability]_vars

(***************************************************************************)
(* SpecFailures: the creation and the update of bookings on a store whose  *)
(* queries may be rejected.                                                *)
(***************************************************************************)
\* The bodies of PATCH /api/bookings/:booking_id that change the status.
StatusBodies == [status : {"confirmed", "cancelled"}, host_id : {NoValue}]

NextFailures ==
    \/ \E token \in {"user_002"}, body \in PartyBookingBodies :
          CreateBookingPropertyCheck(token, body)
    \/ \E r \in BagToSet(reqs) : CreateBookingInsertBooking(r)
    \/ \E r \in BagToSet(reqs) : CreateBookingInsertConversation(r)
    \/ \E r \in BagToSet(reqs) : CreateBookingInsertNotification(r)
    \/ \E token \in PartyActors, booking_id \in BookingIdInputs, body \in StatusBodies :
          UpdateBookingCheck(token, booking_id, body)
    \/ \E r \in BagToSet(reqs) : UpdateBookingUpdate(r)
    \/ \E r \in BagToSet(reqs) : UpdateBookingInsertNotification(r)
    \/ \E r \in BagToSet(reqs) : QueryRejects(r)

SpecFailures == Init /\ [][NextFailures]_vars

(***************************************************************************)
(* SpecCompletion: the completion of a booking, seen by the sockets of its *)
(* parties.                                                                *)
(***************************************************************************)
\* The handshake tokens of each client: client_1 is used by the host of
\* book_002 (and once without a token), client_2 by its guest.
PartySocketTokens ==
    [client \in Clients |->
        IF client = "client_1" THEN {"user_003", "missing"} ELSE {"user_004"}]

\* The bodies of the PATCH of book_002 by its host and by its guest.
CompletedBodies == [status : {"completed", "confirmed"}, host_id : {NoValue}]

NextCompletion ==
    \/ \E client \in Clients :
          \E token \in PartySocketTokens[client] : ConnectSocket(client, token)
    \/ \E client \in Clients : JoinConversationRooms(client)
    \/ \E client \in Clients : DisconnectSocket(client)
    \/ \E token \in PartyActors, body \in CompletedBodies :
          UpdateBookingCheck(token, 2, body)
    \/ \E r \in BagToSet(reqs) : UpdateBookingUpdate(r)
    \/ \E r \in BagToSet(reqs) : UpdateBookingInsertNotification(r)

SpecCompletion == Init /\ [][NextCompletion]_vars

(***************************************************************************)
(* SpecActive: bookings of a property that its host switches off and on.   *)
(***************************************************************************)
\* The bodies of POST /api/bookings by user_002: for prop_003 and for a
\* property that does not exist.
ActiveBookingBodies ==
    [property_id : {"prop_003", "prop_missing"}, check_in : {<<2023, 8, 1>>},
     status : {NoValue}]

NextActive ==
    \/ DeletePropertyOwnerCheck("user_003", "prop_003")
    \/ \E r \in BagToSet(reqs) : DeletePropertyUpdate(r)
    \/ \E body \in ActivationBodies : PatchPropertyOwnerCheck("user_003", "prop_003", body)
    \/ \E r \in BagToSet(reqs) : PatchPropertyUpdate(r)
    \/ \E body \in ActiveBookingBodies : CreateBookingPropertyCheck("user_002", body)
    \/ \E r \in BagToSet(reqs) : CreateBookingInsertBooking(r)
    \/ \E r \in BagToSet(reqs) : CreateBookingInsertConversation(r)
    \/ \E r \in BagToSet(reqs) : CreateBookingInsertNotification(r)

SpecActive == Init /\ [][NextActive]_vars

(***************************************************************************)
(* SpecSenders: who sends the messages of a conversation.                  *)
(***************************************************************************)
\* The users that post to conv_002: its host, its guest and an admin.
SenderActors == {"user_003", "user_004", "user_005"}

\* The bodies of POST .../messages: with content, without, and with a
\* sender_id that names the guest of conv_002.
SenderBodies ==
    { [content |-> "hello"], [content |-> ""],
      [content |-> "as guest", sender_id |-> "user_004"] }

NextSenders ==
    \/ \E token \in SenderActors, conversation_id \in ConversationIdInputs,
           body \in SenderBodies :
          PostMessageConversationCheck(token, conversation_id, body)
    \/ \E r \in BagToSet(reqs) : PostMessageInsert(r)
    \/ \E r \in BagToSet(reqs) : PostMessageTouchConversation(r)

SpecSenders == Init /\ [][NextSenders]_vars

(***************************************************************************)
(* SpecAppendOnly: stored messages and the requests that update them.      *)
(***************************************************************************)
\* The messages named by PATCH /api/messages: msg_003, the messages stored
\* since, and one id that names no message.
MessageIdInputs == 3..(Len(messages) + 1)

\* The users that update: the guest of conv_002 and a user who is no party
\* of it.
UpdateMessageActors == {"user_004", "user_002"}

UpdateMessageBodies ==
    { << >>, [is_read |-> TRUE], [content |-> "edited"], [content |-> ""],
      [sender_id |-> "user_003", is_read |-> TRUE] }

NextAppendOnly ==
    \/ PostMessageConversationCheck("user_004", 2, [content |-> "hello"])
    \/ \E r \in BagToSet(reqs) : PostMessageInsert(r)
    \/ \E r \in BagToSet(reqs) : PostMessageTouchConversation(r)
    \/ \E token \in UpdateMessageActors, message_id \in MessageIdInputs,
           body \in UpdateMessageBodies :
          UpdateMessageCheck(token, message_id, body)
    \/ \E r \in BagToSet(reqs) : UpdateMessageUpdate(r)

SpecAppendOnly == Init /\ [][NextAppendOnly]_vars

(***************************************************************************)
(* SpecRead: reads of a booking next to the status updates of its host.    *)
(***************************************************************************)
NextRead ==
    \/ \E token \in Actors, booking_id \in BookingIdInputs : GetBooking(token, booking_id)
    \/ \E body \in StatusBodies : UpdateBookingCheck("user_003", 2, body)
    \/ \E r \in BagToSet(reqs) : UpdateBookingUpdate(r)
    \/ \E r \in BagToSet(reqs) : UpdateBookingInsertNotification(r)

SpecRead == Init /\ [][NextRead]_vars

(***************************************************************************)
(* SpecAuth: the protected routes, asked with and without a credential     *)
(* that resolves to a user.                                                *)
(***************************************************************************)
\* The credentials that resolve to no user: none, one whose verification
\* throws (malformed or expired), and a verified one whose user is not
\* stored.
BadTokens == {"missing", "malformed", "user_gone"}

\* One request to each protected route.
ProtectedRequest(token) ==
    \/ CreateBookingPropertyCheck(token, [property_id |-> "prop_003",
                                         check_in |-> <<2023, 8, 1>>,
                                         status |-> NoValue])
    \/ GetBooking(token, 2)
    \/ UpdateBookingCheck(token, 2, [status |-> "cancelled", host_id |-> NoValue])
    \/ CreateReviewBookingCheck(token, 2, [overall_rating |-> 5])
    \/ PatchUserCheck(token, "user_004", [role |-> "both"])
    \/ PatchPropertyOwnerCheck(token, "prop_003", [is_active |-> FALSE])
    \/ DeletePropertyOwnerCheck(token, "prop_003")
    \/ SetAvailabilityOwnerCheck(token, "prop_003",
                                 [date |-> <<2023, 7, 1>>, is_available |-> TRUE])
    \/ CreateConversationBookingCheck(token, [booking_id |-> 2, host_id |-> "user_003"])
    \/ PostMessageConversationCheck(token, 2, [content |-> "hello"])
    \/ UpdateMessageCheck(token, 3, [is_read |-> TRUE])
    \/ GetNotifications(token)

\* The requests of user_004, whose credential resolves: a booking of
\* prop_003 and the cancellation of book_002.
NextAuth ==
    \/ ConnectSocket("client_1", "user_003")
    \/ JoinConversationRooms("client_1")
    \/ \E token \in BadTokens : ProtectedRequest(token)
    \/ CreateBookingPropertyCheck("user_004", [property_id |-> "prop_003",
                                         check_in |-> <<2023, 8, 1>>,
                                         status |-> NoValue])
    \/ \E r \in BagToSet(reqs) : CreateBookingInsertBooking(r)
    \/ \E r \in BagToSet(reqs) : CreateBookingInsertConversation(r)
    \/ \E r \in BagToSet(reqs) : CreateBookingInsertNotification(r)
    \/ UpdateBookingCheck("user_004", 2, [status |-> "cancelled", host_id |-> NoValue])
    \/ \E r \in BagToSet(reqs) : UpdateBookingUpdate(r)
    \/ \E r \in BagToSet(reqs) : UpdateBookingInsertNotification(r)

SpecAuth == Init /\ [][NextAuth]_vars

(***************************************************************************)
(* SpecRoles: the roles users give themselves, with no admin acting.       *)
(***************************************************************************)
\* The bodies of POST /api/auth/register: a stored and a new email, each
\* with the role guest and with the role admin.
RoleRegisterBodies ==
    [email : { <<"a", "h", "m", "e", "d", ".", "a", "l", "i", "@", "e",
                 "x", "a", "m", "p", "l", "e", ".", "c", "o", "m">>,
               <<"n", "e", "w", "@", "e", "x", "a", "m", "p", "l", "e",
                 ".", "c", "o", "m">> },
     phone_number : {"+218920000000"},
     role : {"guest", "admin"}]

\* The users that update a user: two guests, neither of them an admin.
RoleActors == {"user_002", "user_004"}

RoleUpdateBodies == { [role |-> "admin"], [role |-> "both"], [role |-> "owner"] }

NextRoles ==
    \/ \E body \in RoleRegisterBodies : RegisterLookup(body)
    \/ \E r \in BagToSet(reqs) : RegisterInsert(r)
    \/ \E token \in RoleActors, body \in RoleUpdateBodies :
          PatchUserCheck(token, "user_002", body)
    \/ \E r \in BagToSet(reqs) : PatchUserUpdate(r)

SpecRoles == Init /\ [][NextRoles]_vars

(***************************************************************************)
(* SpecList: the lists of bookings, next to bookings made and cancelled by *)
(* other users.                                                            *)
(***************************************************************************)
\* The users that list bookings: the guest of book_001, the host of
\* book_002 and an admin.
ListActors == {"user_002", "user_003", "user_005"}

\* The queries of GET /api/bookings: every combination of the filters with
\* the default page, and the unfiltered query with a page of one row and
\* with a limit that is no number.
BookingQueries ==
    [property_id : {NoValue, "prop_003"}, guest_id : {NoValue, "user_004"},
     host_id : {NoValue, "user_003"}, status : {NoValue, "pending"},
     start_date : {<< >>, <<2023, 6, 5>>}, end_date : {<<2023, 12, 31>>},
     limit : {<< >>}, offset : {<< >>}]
    \cup
    [property_id : {NoValue}, guest_id : {NoValue}, host_id : {NoValue},
     status : {NoValue}, start_date : {<< >>}, end_date : {<< >>},
     limit : {<<"1">>, <<"x">>}, offset : {<< >>}]

NextList ==
    \/ \E token \in ListActors, query \in BookingQueries :
          SearchBookingsSelect(token, query)
    \/ \E r \in BagToSet(reqs) : SearchBookingsCount(r)
    \/ \E body \in ActiveBookingBodies : CreateBookingPropertyCheck("user_004", body)
    \/ \E r \in BagToSet(reqs) : CreateBookingInsertBooking(r)
    \/ \E r \in BagToSet(reqs) : CreateBookingInsertConversation(r)
    \/ \E r \in BagToSet(reqs) : CreateBookingInsertNotification(r)
    \/ \E body \in CancelBodies : UpdateBookingCheck("user_004", 2, body)
    \/ \E r \in BagToSet(reqs) : UpdateBookingUpdate(r)
    \/ \E r \in BagToSet(reqs) : UpdateBookingInsertNotification(r)

SpecList == Init /\ [][NextList]_vars

(***************************************************************************)
(* Properties of the booking lifecycle.                                    *)
(***************************************************************************)
\* The edges of the booking state machine.
Edges ==
    { <<"pending", "confirmed">>, <<"pending", "declined">>, <<"pending", "cancelled">>,
      <<"confirmed", "cancelled">>, <<"confirmed", "completed">> }

\* C1: the status of a booking changes only along the edges of the state
\* machine, and a PATCH by an actor with access that asks for another change
\* of status is answered 400 and changes nothing.
C1_StatusFollowsEdges ==
    [][ /\ \A b \in DOMAIN bookings :
              bookings'[b].status # bookings[b].status
                  => <<bookings[b].status, bookings'[b].status>> \in Edges
        /\ \A token \in Actors, b \in DOMAIN bookings, body \in UpdateBookingBodies :
              ( /\ UpdateBookingCheck(token, b, body)
                /\ CanAccessBooking(authenticateToken(token).user, bookings[b])
                /\ body.status \in Statuses
                /\ body.status # bookings[b].status
                /\ <<bookings[b].status, body.status>> \notin Edges )
                  => /\ resp'.code = 400
                     /\ reqs' = reqs
                     /\ bookings' = bookings
      ]_vars

\* The number of reviews of booking b.
ReviewsOf(b) == CountRows(reviews, LAMBDA row : row.booking_id = b)

\* C3: in every reachable state each booking has at most one review.
C3_AtMostOneReviewPerBooking ==
    \A b \in DOMAIN bookings : ReviewsOf(b) <= 1

\* C4: a review request by the booking's guest for a booking whose stored
\* status is not completed is answered 400 BOOKING_NOT_COMPLETED, ends there
\* and creates no review and no notification; and every review inserted is
\* inserted by a request of the booking's guest that read the status completed.
C4_ReviewOnlyWhenCompleted ==
    [][ /\ \A token \in Actors, b \in DOMAIN bookings, body \in CreateReviewBodies :
              ( /\ bookings[b].guest_id = token
                /\ bookings[b].status # "completed"
                /\ CreateReviewBookingCheck(token, b, body) )
                  => /\ resp' = Response("create_review", 400, "BOOKING_NOT_COMPLETED")
                     /\ reqs' = reqs
                     /\ reviews' = reviews
                     /\ notifications' = notifications
        /\ reviews' # reviews
              => \E r \in BagToSet(reqs) :
                    /\ CreateReviewInsertReview(r)
                    /\ r.booking.status = "completed"
                    /\ r.booking.guest_id = r.user.user_id
      ]_vars

\* A review request was refused for a booking that had been cancelled.
C4_Witness ==
    /\ resp = Response("create_review", 400, "BOOKING_NOT_COMPLETED")
    /\ bookings[2].status = "cancelled"
    /\ reviews = SeedReviews

\* C10: the status of a booking moves from pending to confirmed or declined
\* only by a request of the booking's host or of an admin.
C10_OnlyHostOrAdminDecides ==
    [][ \A b \in DOMAIN bookings :
            ( /\ bookings[b].status = "pending"
              /\ bookings'[b].status \in {"confirmed", "declined"} )
                => \E r \in BagToSet(reqs) :
                      /\ UpdateBookingUpdate(r)
                      /\ r.booking_id = b
                      /\ \/ r.user.role = "admin"
                         \/ r.user.user_id = bookings[b].host_id
      ]_vars

(***************************************************************************)
(* Properties of the creation of bookings.                                 *)
(***************************************************************************)
\* The bookings created through POST /api/bookings.
CreatedBookings == {b \in DOMAIN bookings : b > Len(SeedBookings)}

\* A request that inserted booking b is still in flight.
CreatingBooking(b) ==
    \E r \in BagToSet(reqs) : r.op = "create_booking" /\ r.booking_id = b

ConversationsOf(b) ==
    {i \in DOMAIN conversations : conversations[i].booking_id = b}

\* The number of booking_request notifications for booking b addressed to u.
BookingRequestsOf(b, u) ==
    CountRows(notifications,
              LAMBDA row : /\ row.type = "booking_request"
                           /\ row.related_entity_type = "booking"
                           /\ row.related_entity_id = b
                           /\ row.user_id = u)

BookingRequests(b) ==
    CountRows(notifications,
              LAMBDA row : /\ row.type = "booking_request"
                           /\ row.related_entity_type = "booking"
                           /\ row.related_entity_id = b)

\* C2: a booking created by a POST has at most one conversation and at most
\* one booking_request notification, and once its request has ended it has
\* exactly one conversation and exactly one booking_request notification,
\* addressed to the host of the booked property.
C2_OneConversationOneNotification ==
    \A b \in CreatedBookings :
        /\ Cardinality(ConversationsOf(b)) <= 1
        /\ BookingRequests(b) <= 1
        /\ ~CreatingBooking(b)
              => /\ Cardinality(ConversationsOf(b)) = 1
                 /\ BookingRequests(b) = 1
                 /\ BookingRequestsOf(b, properties[bookings[b].property_id].host_id) = 1

\* A POST /api/bookings has been answered 201.
C2_Witness ==
    /\ resp = Response("create_booking", 201, NoValue)
    /\ \E b \in CreatedBookings : ~CreatingBooking(b)

\* C9: every booking row inserted by POST /api/bookings has status pending.
C9_CreatedPending ==
    [][ Len(bookings') > Len(bookings)
            => bookings'[Len(bookings')].status = "pending" ]_vars

(***************************************************************************)
(* Properties of the property search.                                      *)
(***************************************************************************)
\* The rows of a search response, as a set.
Returned(response) == {response.properties[i] : i \in DOMAIN response.properties}

\* A step that answers a search: a request is received and answered at once
\* with a search response.
AnswersSearch ==
    nreq' = nreq + 1 /\ reqs' = reqs /\ resp'.op = "search_properties"

\* C5: a property with is_active = false is in the rows of no search,
\* whatever the query; GET /api/properties/:id answers 200 with the stored
\* row of every property, inactive ones included; no step removes a row of
\* properties, and the write of DELETE changes is_active of its property to
\* false and nothing else.
C5_InactiveHiddenNotRemoved ==
    [][ /\ (AnswersSearch /\ resp'.code = 200) =>
              \A p \in Returned(resp') : properties[p].is_active
        /\ \A p \in DOMAIN properties :
              GetProperty(p) => (resp'.code = 200 /\ resp'.property = properties[p])
        /\ DOMAIN properties \subseteq DOMAIN properties'
        /\ \A r \in BagToSet(reqs) :
              DeletePropertyUpdate(r) =>
                  properties' = [properties EXCEPT ![r.property_id] =
                                    [@ EXCEPT !.is_active = FALSE]]
      ]_vars

\* A search has returned rows while prop_003 has been deleted, and none of
\* the rows is prop_003.
C5_Witness ==
    /\ resp.op = "search_properties" /\ resp.code = 200
    /\ ~properties["prop_003"].is_active
    /\ Returned(resp) # {}
    /\ "prop_003" \notin Returned(resp)

\* The position of a date in the calendar.
DayNumber(date) == (date[1] * 12 + (date[2] - 1)) * 31 + date[3]

\* The properties with a record is_available = false on a calendar day from
\* check_in to check_out.
BlockedInRange(check_in, check_out) ==
    {availability[i].property_id : i \in
        {j \in DOMAIN availability :
            /\ DayNumber(check_in) <= DayNumber(availability[j].date)
            /\ DayNumber(availability[j].date) <= DayNumber(check_out)
            /\ ~availability[j].is_available}}

\* C6: in every state, the answer to a search that gives check_in and
\* check_out has in its rows no property with a record is_available = false
\* on a day of the range; and when the search has no other filter and no
\* page bound, every active property without such a record is in its rows.
C6_DateFilter ==
    \A query \in SearchQueries :
        LET response == SearchResponse(query)
            blocked == BlockedInRange(query.check_in, query.check_out)
            rows == Returned(response)
        IN  (Given(query.check_in) /\ Given(query.check_out) /\ response.code = 200) =>
               /\ rows \cap blocked = {}
               /\ (query.limit = << >> /\ query.offset = << >>
                      /\ [query EXCEPT !.check_in = << >>, !.check_out = << >>,
                                       !.sort_by = NoValue] = NoQuery) =>
                     \A p \in DOMAIN properties :
                        (properties[p].is_active /\ p \notin blocked) => p \in rows

\* The response sent last is the answer of the store to a search whose range
\* holds the blocked day of the active prop_001, and to no search without
\* dates: prop_001 is missing from it, the active properties with no blocked
\* day in the range are in it.
C6_Witness ==
    /\ resp.op = "search_properties" /\ resp.code = 200
    /\ properties["prop_001"].is_active /\ properties["prop_003"].is_active
    /\ "prop_001" \notin Returned(resp) /\ "prop_003" \in Returned(resp)
    /\ \E query \in SearchQueries :
          /\ Given(query.check_in) /\ Given(query.check_out)
          /\ "prop_001" \in BlockedInRange(query.check_in, query.check_out)
          /\ resp = SearchResponse(query)
    /\ \A query \in SearchQueries :
          ~(Given(query.check_in) /\ Given(query.check_out)) =>
              resp # SearchResponse(query)

(***************************************************************************)
(* Properties of registration and of the ownership checks.                 *)
(***************************************************************************)
\* C7: a registration whose email is the email of a stored user (emails are
\* stored and looked up at login in lower case) is answered 409
\* USER_ALREADY_EXISTS at once and writes no user row.
C7_DuplicateEmailRejected ==
    [][ \A body \in RegisterBodies :
           (/\ \E u \in DOMAIN users : users[u].email = toLowerCase(body.email)
            /\ RegisterLookup(body)) =>
               /\ resp' = Response("register", 409, "USER_ALREADY_EXISTS")
               /\ reqs' = reqs
               /\ users' = users
      ]_vars

\* C8: a PATCH of a property by a user who is neither its host nor an admin,
\* and a PATCH of a user by another user who is not an admin, is answered
\* 403 at once, whatever its body, and the store is left as it is.
C8_ForeignPatchForbidden ==
    [][ /\ \A token \in Actors, property_id \in PropertyIdInputs \cap DOMAIN properties,
              body \in UpdatePropertyBodies :
              (/\ properties[property_id].host_id # token
               /\ users[token].role # "admin"
               /\ PatchPropertyOwnerCheck(token, property_id, body)) =>
                  /\ resp' = Response("update_property", 403, "FORBIDDEN_ACCESS")
                  /\ reqs' = reqs
                  /\ properties' = properties /\ users' = users
        /\ \A token \in Actors, user_id \in UserIdInputs, body \in UpdateUserBodies :
              (/\ user_id # token
               /\ users[token].role # "admin"
               /\ PatchUserCheck(token, user_id, body)) =>
                  /\ resp' = Response("update_user", 403, "FORBIDDEN_ACCESS")
                  /\ reqs' = reqs
                  /\ properties' = properties /\ users' = users
      ]_vars

\* A PATCH of a property has been refused with 403 after the property's host
\* has changed it: the row still holds what its host wrote.
C8_Witness ==
    /\ resp = Response("update_property", 403, "FORBIDDEN_ACCESS")
    /\ properties # SeedProperties
    /\ users = SeedUsers

(***************************************************************************)
(* Properties of the access to a booking.                                  *)
(***************************************************************************)
\* The user is the guest or the host of the booking, or an admin.
IsPartyOrAdmin(user_id, booking) ==
    \/ users[user_id].role = "admin"
    \/ booking.guest_id = user_id
    \/ booking.host_id = user_id

\* C12: a GET or a PATCH of a booking by an authenticated user who is neither
\* its guest, nor its host, nor an admin is answered 403 at once, and the
\* PATCH leaves the booking and the notifications as they are; a GET is
\* answered 200, and a booking row is written by a PATCH, only for a user who
\* is the guest, the host or an admin.
C12_BookingAccess ==
    [][ /\ \A token \in Actors, b \in DOMAIN bookings :
              /\ (~IsPartyOrAdmin(token, bookings[b]) /\ GetBooking(token, b))
                    => /\ resp' = Response("get_booking", 403, "FORBIDDEN_ACCESS")
                       /\ reqs' = reqs
              /\ (GetBooking(token, b) /\ resp'.code = 200)
                    => IsPartyOrAdmin(token, bookings[b])
              /\ \A body \in UpdateBookingBodies :
                    (~IsPartyOrAdmin(token, bookings[b]) /\ UpdateBookingCheck(token, b, body))
                        => /\ resp' = Response("update_booking", 403, "FORBIDDEN_ACCESS")
                           /\ reqs' = reqs
                           /\ bookings' = bookings
                           /\ notifications' = notifications
        /\ \A r \in BagToSet(reqs) :
              (r.op = "update_booking" /\ (UpdateBookingUpdate(r) \/ UpdateBookingInsertNotification(r)))
                  => IsPartyOrAdmin(r.user.user_id, bookings[r.booking_id])
        /\ bookings' # bookings
              => \E r \in BagToSet(reqs) :
                    /\ UpdateBookingUpdate(r)
                    /\ IsPartyOrAdmin(r.user.user_id, bookings[r.booking_id])
      ]_vars

\* A PATCH of book_002 by a guest of another booking has been refused with
\* 403 after the booking had been changed by one of its parties.
C12_Witness ==
    /\ resp = Response("update_booking", 403, "FORBIDDEN_ACCESS")
    /\ bookings # SeedBookings
    /\ reqs = EmptyBag

(***************************************************************************)
(* Properties of the parties of a booking.                                 *)
(***************************************************************************)
\* C11: the notification of a status change is addressed to the booking's
\* guest when the booking is confirmed or declined, and to the other party
\* when it is cancelled: the host when the guest cancels, the guest when the
\* host cancels, so never the guest or host who cancelled.
C11_StatusNotificationAddressee ==
    [][ \A r \in BagToSet(reqs) :
          (r.op = "update_booking" /\ r.pc = "insert_notification"
              /\ UpdateBookingInsertNotification(r))
            => \E row \in BagToSet(notifications') :
                 /\ notifications' = Insert(notifications, row)
                 /\ row.related_entity_type = "booking"
                 /\ row.related_entity_id = r.booking_id
                 /\ r.updateData.status = "confirmed"
                       => row.type = "booking_confirmed"
                          /\ row.user_id = r.currentBooking.guest_id
                 /\ r.updateData.status = "declined"
                       => row.type = "booking_declined"
                          /\ row.user_id = r.currentBooking.guest_id
                 /\ r.updateData.status = "cancelled"
                       => /\ row.type = "booking_cancelled"
                          /\ r.user.user_id = r.currentBooking.guest_id
                                => row.user_id = r.currentBooking.host_id
                          /\ r.user.user_id = r.currentBooking.host_id
                                => row.user_id = r.currentBooking.guest_id
                          /\ r.user.user_id \in {r.currentBooking.guest_id,
                                                  r.currentBooking.host_id}
                                => row.user_id # r.user.user_id
      ]_vars

\* C13: the host_id of a booking is the host_id of the booked property when
\* the booking is created, whatever host_id the body of the request carries,
\* and no later step changes the host_id of a stored booking.
C13_HostFixedAtCreation ==
    [][ /\ \A b \in DOMAIN bookings : bookings'[b].host_id = bookings[b].host_id
        /\ Len(bookings') > Len(bookings)
              => \E r \in BagToSet(reqs) :
                    /\ CreateBookingInsertBooking(r)
                    /\ bookings'[Len(bookings')].host_id = r.host_id
      ]_vars

(***************************************************************************)
(* Properties of failing store writes.                                     *)
(***************************************************************************)
\* What the request r has written so far.
HasWritten(r) ==
    \/ r.op = "create_booking" /\ r.pc \in {"insert_conversation", "insert_notification"}
    \/ r.op = "update_booking" /\ r.pc = "insert_notification"

\* C14: a creation or an update of a booking whose store query is rejected
\* is answered with a failure and none of its writes is in the store (it had
\* written nothing before); so every created booking whose request has ended
\* has its conversation.
C14_AllOrNothing ==
    [][ /\ \A r \in BagToSet(reqs) :
              QueryRejects(r)
                  => /\ resp'.code = 500
                     /\ ~HasWritten(r)
        /\ \A b \in DOMAIN bookings' :
              (b > Len(SeedBookings)
                  /\ ~\E r \in BagToSet(reqs') : r.op = "create_booking" /\ r.booking_id = b)
                => \E i \in DOMAIN conversations' : conversations'[i].booking_id = b
      ]_vars

(***************************************************************************)
(* Properties of the availability ledger.                                  *)
(***************************************************************************)
\* The records of the ledger for a property and a day.
LedgerRecords(rows, property_id, date) ==
    {i \in DOMAIN rows : rows[i].property_id = property_id /\ rows[i].date = date}

\* C15: the ledger holds at most one record for a property and a day, and
\* a POST .../availability by the host or an admin that passed validation
\* is answered 201 and leaves exactly one record for its property and day,
\* holding the is_available it wrote, whether or not a record was there.
C15_AvailabilityUpsert ==
    [][ /\ \A i, j \in DOMAIN availability' :
              (availability'[i].property_id = availability'[j].property_id
                  /\ availability'[i].date = availability'[j].date) => i = j
        /\ \A r \in BagToSet(reqs) :
              (r.op = "set_availability" /\ SetAvailabilityInsert(r))
                => /\ resp'.code = 201
                   /\ \E i \in DOMAIN availability' :
                         /\ LedgerRecords(availability', r.property_id,
                                          availability'[i].date) = {i}
                         /\ availability'[i].property_id = r.property_id
                         /\ availability'[i].is_available = r.availabilityData.is_available
                         /\ \A k \in DOMAIN availability :
                               k # i => availability'[k] = availability[k]
      ]_vars

(***************************************************************************)
(* Properties of conversations.                                            *)
(***************************************************************************)
\* C16: in every reachable state each booking has at most one conversation,
\* and the guest_id and host_id of every conversation are those of its
\* booking.
C16_OneConversationOfItsParties ==
    /\ \A b \in DOMAIN bookings : Cardinality(ConversationsOf(b)) <= 1
    /\ \A i \in DOMAIN conversations :
          /\ conversations[i].booking_id \in DOMAIN bookings
          /\ conversations[i].guest_id = bookings[conversations[i].booking_id].guest_id
          /\ conversations[i].host_id = bookings[conversations[i].booking_id].host_id

(***************************************************************************)
(* Properties of the events pushed to sockets.                             *)
(***************************************************************************)
\* C17: when a message is posted to a conversation, every connected socket
\* of the conversation's guest and of its host (that has joined its rooms)
\* receives the message/created event, also when the conversation was
\* created after the socket connected.
C17_MessageReachesParticipants ==
    [][ \A r \in BagToSet(reqs) :
          (r.op = "post_message" /\ r.pc = "touch_conversation"
              /\ PostMessageTouchConversation(r))
            => \A client \in Clients :
                 ( /\ sockets[client].connected
                   /\ sockets[client].pc = "joined"
                   /\ sockets[client].user.user_id \in
                          {conversations[r.conversation_id].guest_id,
                           conversations[r.conversation_id].host_id} )
                   => sockets'[client].received
                         = Append(sockets[client].received,
                                  Event("message/created", NewMessage(r)))
      ]_vars

\* The events a step delivers to the socket of a client.
NewEvents(client) ==
    IF ~sockets'[client].connected
    THEN << >>
    ELSE IF ~sockets[client].connected
    THEN sockets'[client].received
    ELSE SubSeq(sockets'[client].received, Len(sockets[client].received) + 1,
                Len(sockets'[client].received))

\* C18: a notification/created event reaches a socket only in the step that
\* has inserted its row, once, and only when the socket is of the user the
\* row is addressed to; no other step delivers it, so a socket that connects
\* later does not get it; and GET /api/notifications returns every stored
\* row of the user.
C18_NotificationPush ==
    [][ /\ \A client \in Clients :
              \A k \in DOMAIN NewEvents(client) :
                 NewEvents(client)[k].name = "notification/created"
                   => /\ notifications' = Insert(notifications, NewEvents(client)[k].data)
                      /\ NewEvents(client)[k].data.user_id = sockets'[client].user.user_id
                      /\ \A j \in DOMAIN NewEvents(client) :
                            NewEvents(client)[j].name = "notification/created" => j = k
        /\ GetNotifications("user_003")
              => /\ resp'.code = 200
                 /\ \A row \in BagToSet(notifications) :
                       row.user_id = "user_003"
                         => /\ row \in DOMAIN resp'.rows
                            /\ resp'.rows[row] = notifications[row]
      ]_vars

\* The notification/created events the socket of a client has received.
ReceivedNotifications(client) ==
    {k \in DOMAIN sockets[client].received :
        sockets[client].received[k].name = "notification/created"}

\* The host's client connected after the booking_request of one booking had
\* been stored and before that of another: its socket has received the
\* second only, and GET /api/notifications has returned both.
C18_Witness ==
    /\ sockets["client_1"].connected
    /\ Cardinality(ReceivedNotifications("client_1")) = 1
    /\ resp.op = "get_notifications" /\ resp.code = 200
    /\ \E row \in DOMAIN resp.rows :
          /\ row.type = "booking_request"
          /\ row.related_entity_id > Len(SeedBookings)
          /\ \A k \in ReceivedNotifications("client_1") :
                sockets["client_1"].received[k].data # row
    /\ \A k \in ReceivedNotifications("client_1") :
          sockets["client_1"].received[k].data \in DOMAIN resp.rows

(***************************************************************************)
(* Properties of who reviews.                                              *)
(***************************************************************************)
\* C19: a review request by a user who is not the booking's guest (its host
\* and an admin included) is answered 403 at once whatever the status of the
\* booking, and creates no review and no notification; and every stored
\* review has the guest_id of its booking as reviewer_id and the host_id and
\* property_id of its booking.
C19_OnlyGuestReviews ==
    [][ /\ \A token \in ReviewActors, b \in DOMAIN bookings, body \in CreateReviewBodies :
              (bookings[b].guest_id # token /\ CreateReviewBookingCheck(token, b, body))
                  => /\ resp' = Response("create_review", 403, "FORBIDDEN_ACCESS")
                     /\ reqs' = reqs
                     /\ reviews' = reviews
                     /\ notifications' = notifications
        /\ \A row \in BagToSet(reviews') :
              /\ row.reviewer_id = bookings'[row.booking_id].guest_id
              /\ row.host_id = bookings'[row.booking_id].host_id
              /\ row.property_id = bookings'[row.booking_id].property_id
      ]_vars

(***************************************************************************)
(* Properties of the stay of a search.                                     *)
(***************************************************************************)
\* The properties with a record is_available = false on a calendar day D
\* with check_in <= D < check_out.
BlockedInStay(check_in, check_out) ==
    {availability[i].property_id : i \in
        {j \in DOMAIN availability :
            /\ DayNumber(check_in) <= DayNumber(availability[j].date)
            /\ DayNumber(availability[j].date) < DayNumber(check_out)
            /\ ~availability[j].is_available}}

\* C20: the answer to a search that gives check_in and check_out leaves out
\* the properties with a record is_available = false on a day D with
\* check_in <= D < check_out, and only those: when the search has no other
\* filter and no page bound, an active property whose only such record is
\* on check_out itself is in its rows.
C20_HalfOpenStay ==
    \A query \in SearchQueries :
        LET response == SearchResponse(query)
            blocked == BlockedInStay(query.check_in, query.check_out)
            rows == Returned(response)
        IN  (Given(query.check_in) /\ Given(query.check_out) /\ response.code = 200) =>
               /\ rows \cap blocked = {}
               /\ (query.limit = << >> /\ query.offset = << >>
                      /\ [query EXCEPT !.check_in = << >>, !.check_out = << >>,
                                       !.sort_by = NoValue] = NoQuery) =>
                     \A p \in DOMAIN properties :
                        (properties[p].is_active /\ p \notin blocked) => p \in rows

(***************************************************************************)
(* Properties of the completion of a booking.                              *)
(***************************************************************************)
\* C21: the UPDATE of a PATCH that changes the status of a booking to
\* completed ends the request with 200: it inserts no notification row, and
\* the only event it delivers to a connected socket is the broadcast
\* booking/updated; no socket receives a notification/created or a status
\* event.
C21_CompletedWithoutNotification ==
    [][ \A r \in BagToSet(reqs) :
          ( /\ r.op = "update_booking" /\ r.pc = "update"
            /\ r.updateData.status = "completed"
            /\ bookings[r.booking_id].status # "completed"
            /\ UpdateBookingUpdate(r) )
            => /\ bookings'[r.booking_id].status = "completed"
               /\ notifications' = notifications
               /\ reqs' = reqs (-) SetToBag({r})
               /\ resp' = Response("update_booking", 200, NoValue)
               /\ \A client \in Clients :
                     NewEvents(client) =
                        IF sockets[client].connected
                        THEN << Event("booking/updated", bookings'[r.booking_id]) >>
                        ELSE << >>
      ]_vars

\* The guest's socket was connected while book_002 went from pending to
\* completed: booking/updated is all it has received, and the notifications
\* are those of the seed.
C21_Witness ==
    /\ bookings[2].status = "completed"
    /\ resp = Response("update_booking", 200, NoValue)
    /\ notifications = SeedNotifications
    /\ sockets["client_2"].connected
    /\ sockets["client_2"].received = << Event("booking/updated", bookings[2]) >>

(***************************************************************************)
(* Properties of the property of a booking.                                *)
(***************************************************************************)
\* C22: POST /api/bookings for a property that does not exist, or whose
\* is_active is false, is rejected at its property lookup: the answer is an
\* error and the request goes on to no insert of a booking, a conversation
\* or a notification.
C22_ActivePropertyOnly ==
    [][ \A body \in ActiveBookingBodies :
          ( /\ \/ body.property_id \notin DOMAIN properties
               \/ ~properties[body.property_id].is_active
            /\ CreateBookingPropertyCheck("user_002", body) )
            => /\ reqs' = reqs
               /\ resp'.op = "create_booking"
               /\ resp'.code >= 400
      ]_vars

(***************************************************************************)
(* Properties of the messages of a conversation.                           *)
(***************************************************************************)
\* Whether a user is the guest or the host of a conversation.
IsParticipant(user_id, conversation) ==
    user_id \in {conversation.guest_id, conversation.host_id}

\* C23: a POST .../messages by a user who is not the guest or the host of
\* the conversation (an admin included) is answered 403 and goes no further;
\* a request that goes on carries the authenticated user as sender_id
\* whatever sender_id its body has; and every step that stores a message
\* appends one row whose sender_id is the authenticated user of its request,
\* a participant of the conversation.
C23_SenderIsActor ==
    [][ /\ \A token \in SenderActors, conversation_id \in DOMAIN conversations,
              body \in SenderBodies :
              PostMessageConversationCheck(token, conversation_id, body)
                => /\ messages' = messages
                   /\ IF IsParticipant(token, conversations[conversation_id])
                      THEN \A r \in BagToSet(reqs') :
                              CopiesIn(r, reqs') > CopiesIn(r, reqs)
                                => /\ r.user.user_id = token
                                   /\ r.messageData.sender_id = token
                      ELSE /\ reqs' = reqs
                           /\ resp' = Response("post_message", 403, "FORBIDDEN_ACCESS")
        /\ \A r \in BagToSet(reqs) :
              (r.op = "post_message" /\ r.pc = "insert" /\ PostMessageInsert(r))
                => /\ Len(messages') = Len(messages) + 1
                   /\ SubSeq(messages', 1, Len(messages)) = messages
                   /\ messages'[Len(messages')].sender_id = r.user.user_id
                   /\ IsParticipant(r.user.user_id, conversations[r.conversation_id])
        /\ messages' # messages => \E r \in BagToSet(reqs) : PostMessageInsert(r)
      ]_vars

\* The host has stored a message whose body named the guest as sender_id,
\* and the admin's request has been answered 403.
C23_Witness ==
    /\ resp = Response("post_message", 403, "FORBIDDEN_ACCESS")
    /\ \E i \in DOMAIN messages :
          /\ i > Len(SeedMessages)
          /\ messages[i].content = "as guest"
          /\ messages[i].sender_id = "user_003"

\* C24: no step removes a stored message or changes its content, sender_id
\* or conversation_id; and the UPDATE of a PATCH /api/messages whose body is
\* {is_read: true} sets is_read of its message and is answered 200.
C24_AppendOnly ==
    [][ /\ \A i \in DOMAIN messages :
              /\ i \in DOMAIN messages'
              /\ messages'[i].content = messages[i].content
              /\ messages'[i].sender_id = messages[i].sender_id
              /\ messages'[i].conversation_id = messages[i].conversation_id
        /\ \A r \in BagToSet(reqs) :
              ( /\ r.op = "update_message" /\ r.pc = "update"
                /\ r.updateData = [is_read |-> TRUE]
                /\ UpdateMessageUpdate(r) )
                => /\ messages'[r.message_id].is_read
                   /\ resp' = Response("update_message", 200, NoValue)
      ]_vars

C26_NoHandlerWithoutUser ==
    [][ \A token \in BadTokens :
          ProtectedRequest(token)
            => /\ resp'.error = IF token = "missing" THEN "AUTH_TOKEN_MISSING"
                                ELSE "AUTH_TOKEN_INVALID"
               /\ resp'.code \in {401, 403}
               /\ reqs' = reqs
               /\ UNCHANGED <<users, properties, availability, bookings, conversations,
                              notifications, reviews, messages, sockets>>
      ]_vars

\* A request with a verified credential whose user is not stored has been
\* answered 401 AUTH_TOKEN_INVALID while a socket was connected and after a
\* booking had been created.
C26_Witness ==
    /\ resp.code = 401 /\ resp.error = "AUTH_TOKEN_INVALID"
    /\ sockets["client_1"].connected
    /\ Len(bookings) > Len(SeedBookings)

(***************************************************************************)
(* Properties of reviewed bookings.                                        *)
(***************************************************************************)
\* C27: in every reachable state, the booking of every review stored since
\* the seed has status completed (the seeded review rev_001 is left aside:
\* its booking book_001 is confirmed from the start).
C27_ReviewedIsCompleted ==
    \A row \in BagToSet(reviews) :
        row \notin BagToSet(SeedReviews)
            => bookings[row.booking_id].status = "completed"

(***************************************************************************)
(* Properties of concurrent status updates.                                *)
(***************************************************************************)
\* C28: the UPDATE of a PATCH goes on to the insert of a status notification
\* exactly when it changes the stored status of its booking to confirmed,
\* declined or cancelled; an UPDATE that writes the status the booking
\* already has goes on to none, whatever other requests for the booking are
\* in flight.
C28_NotificationPerStatusChange ==
    [][ \A r \in BagToSet(reqs) :
          (r.op = "update_booking" /\ r.pc = "update" /\ UpdateBookingUpdate(r))
            => ( ( /\ bookings'[r.booking_id].status # bookings[r.booking_id].status
                   /\ bookings'[r.booking_id].status
                         \in {"confirmed", "declined", "cancelled"} )
                 <=> \E r2 \in BagToSet(reqs') :
                        /\ r2.op = "update_booking"
                        /\ r2.pc = "insert_notification"
                        /\ CopiesIn(r2, reqs') > CopiesIn(r2, reqs) )
      ]_vars

(***************************************************************************)
(* Properties of the roles of users.                                       *)
(***************************************************************************)
\* C29: while no admin acts, the users with role admin are those that are
\* admins in the seed: no registration and no PATCH /api/users/:user_id by
\* a user who is not an admin leaves a user with role admin who was not one
\* before.
C29_NoSelfMadeAdmin ==
    \A u \in DOMAIN users :
        users[u].role = "admin" => (u \in DOMAIN SeedUsers /\ SeedUsers[u].role = "admin")

(***************************************************************************)
(* Properties of the list of bookings.                                     *)
(***************************************************************************)
\* The bookings of which a user is the guest or the host.
OwnBookings(user_id) ==
    {b \in DOMAIN bookings :
        bookings[b].guest_id = user_id \/ bookings[b].host_id = user_id}

\* Whether every row of a list of bookings has the user as guest or host.
ListsOnlyOwn(rows, user_id) ==
    \A i \in DOMAIN rows :
        rows[i].row.guest_id = user_id \/ rows[i].row.host_id = user_id

\* C30: for a user who is not an admin and every combination of the filters,
\* the rows selected by GET /api/bookings are bookings of which the user is
\* the guest or the host, and they are the rows selected from the store
\* without the bookings of which the user is no party; the rows of every
\* request in flight and of the last response are bookings of its user.
C30_OwnBookingsOnly ==
    /\ \A token \in ListActors :
          users[token].role # "admin" =>
             \A query \in BookingQueries :
                LET user == authenticateToken(token).user
                    rows == BookingsList(bookings, user, query)
                IN  /\ ListsOnlyOwn(rows, token)
                    /\ rows = BookingsList([b \in OwnBookings(token) |-> bookings[b]],
                                           user, query)
    /\ \A r \in BagToSet(reqs) :
          (r.op = "search_bookings" /\ r.user.role # "admin")
              => ListsOnlyOwn(r.rows, r.user.user_id)
    /\ (resp.op = "search_bookings" /\ resp.code = 200
           /\ users[resp.user_id].role # "admin")
          => ListsOnlyOwn(resp.bookings, resp.user_id)

\* user_002 has been answered the one booking of theirs while the store
\* holds a booking created since by another user.
C30_Witness ==
    /\ resp.op = "search_bookings" /\ resp.code = 200
    /\ resp.user_id = "user_002"
    /\ Len(resp.bookings) = 1
    /\ resp.bookings[1].booking_id = 1
    /\ resp.total_count > Len(SeedBookings)

====
